---- MODULE Spec2Model ----
(***************************************************************************)
(* Upload admission pipeline, token lifecycle, file record store,          *)
(* downloads and image transform cache of the Fastify Telyubiz CDN         *)
(* (modules/v1).                                                           *)
(*                                                                         *)
(* Every awaited I/O call of a request handler is one action; the code     *)
(* between two awaits runs without interleaving (a single Node.js event    *)
(* loop).  Concurrent requests interleave at the awaits.                   *)
(*                                                                         *)
(* Modelling conventions                                                   *)
(*  - SHA-256 is injective on the modelled contents: the hash of a         *)
(*    content is the content's name.                                       *)
(*  - crypto.randomUUID() never repeats: the file id and the stored        *)
(*    filename generated by the n-th request to arrive are both n.         *)
(*  - a handler context (slot) keeps the locals of one request; when the   *)
(*    request is answered the slot keeps the answer until the next request *)
(*    takes it.  What the system remembers of past requests is the         *)
(*    database and the disk.                                               *)
(*  - a database call (pool.execute) may reject; a rejected call of a      *)
(*    writing statement either was not applied or, for the repository      *)
(*    methods that read the row back (create, update), was applied before  *)
(*    the read-back rejected.  At most MaxFaults calls reject in a run.    *)
(*  - fs.unlink of a file the request has just written does not fail.      *)
(*  - NULL is 0 for max_file_size, NoTime for timestamps, 0 for ids.       *)
(***************************************************************************)
EXTENDS Integers, Sequences, FiniteSets, TLC

----
\* Bounds of the model

NumReqs == 2        \* upload requests in a run, numbered in arrival order
MaxInFlight == 2    \* requests handled at the same time
NumSeqReqs == 3     \* upload requests in a run that handles one request at a time
MaxTokens == 2      \* rows of upload_tokens
MaxFaults == 1      \* rejected database / storage calls in a run
MaxTime == 2        \* the clock runs over 0..MaxTime

Slots == 1..MaxInFlight
TokenIds == 1..MaxTokens
NoTime == 0 - 1

----
\* config/file-categories.config.ts

MB == 1024 * 1024

CategoryOrder == <<"image", "video", "document", "audio", "archive", "other">>

Categories == {CategoryOrder[i] : i \in 1..Len(CategoryOrder)}

FILE_CATEGORIES ==
  [c \in Categories |->
     CASE c = "image" ->
            [extensions |-> {".jpg", ".jpeg", ".png", ".gif", ".webp", ".svg", ".bmp", ".ico"},
             mimeTypes |-> {"image/jpeg", "image/png", "image/gif", "image/webp",
                            "image/svg+xml", "image/bmp", "image/x-icon"},
             maxSize |-> 10 * MB, allowOptimization |-> TRUE]
       [] c = "video" ->
            [extensions |-> {".mp4", ".webm", ".mov", ".avi", ".mkv", ".flv", ".wmv"},
             mimeTypes |-> {"video/mp4", "video/webm", "video/quicktime", "video/x-msvideo",
                            "video/x-matroska", "video/x-flv", "video/x-ms-wmv"},
             maxSize |-> 500 * MB, allowOptimization |-> TRUE]
       [] c = "document" ->
            [extensions |-> {".pdf", ".doc", ".docx", ".xls", ".xlsx", ".ppt", ".pptx",
                             ".txt", ".csv"},
             mimeTypes |-> {"application/pdf", "application/msword",
                            "application/vnd.openxmlformats-officedocument.wordprocessingml.document",
                            "application/vnd.ms-excel",
                            "application/vnd.openxmlformats-officedocument.spreadsheetml.sheet",
                            "application/vnd.ms-powerpoint",
                            "application/vnd.openxmlformats-officedocument.presentationml.presentation",
                            "text/plain", "text/csv"},
             maxSize |-> 20 * MB, allowOptimization |-> FALSE]
       [] c = "audio" ->
            [extensions |-> {".mp3", ".wav", ".ogg", ".m4a", ".flac", ".aac", ".wma"},
             mimeTypes |-> {"audio/mpeg", "audio/wav", "audio/ogg", "audio/mp4",
                            "audio/flac", "audio/aac", "audio/x-ms-wma"},
             maxSize |-> 50 * MB, allowOptimization |-> FALSE]
       [] c = "archive" ->
            [extensions |-> {".zip", ".tar", ".gz", ".7z", ".rar", ".bz2"},
             mimeTypes |-> {"application/zip", "application/x-tar", "application/gzip",
                            "application/x-7z-compressed", "application/x-rar-compressed",
                            "application/x-bzip2"},
             maxSize |-> 100 * MB, allowOptimization |-> FALSE]
       [] OTHER ->
            [extensions |-> {}, mimeTypes |-> {}, maxSize |-> 10 * MB,
             allowOptimization |-> FALSE]]

\* String.prototype.toLowerCase on the strings of the model
ToLowerCase(s) ==
  CASE s = ".JPG" -> ".jpg"
    [] s = "IMAGE/JPEG" -> "image/jpeg"
    [] OTHER -> s

\* the first category, in Object.entries order, among the matching ones
FirstCategory(matching) ==
  LET hits == {i \in 1..Len(CategoryOrder) : CategoryOrder[i] \in matching}
  IN IF hits = {} THEN "other"
     ELSE CategoryOrder[CHOOSE i \in hits : \A j \in hits : i <= j]

\* a filename is modelled by its extension, "" when it has none
detectCategoryFromExtension(ext) ==
  IF ext = "" THEN "other"
  ELSE FirstCategory({c \in Categories : ToLowerCase(ext) \in FILE_CATEGORIES[c].extensions})

detectCategoryFromMimeType(mimeType) ==
  FirstCategory({c \in Categories : ToLowerCase(mimeType) \in FILE_CATEGORIES[c].mimeTypes})

isAllowedExtension(ext, category) ==
  /\ ext # ""
  /\ ToLowerCase(ext) \in FILE_CATEGORIES[category].extensions

isAllowedMimeType(mimeType, category) ==
  ToLowerCase(mimeType) \in FILE_CATEGORIES[category].mimeTypes

getMaxSize(category) == FILE_CATEGORIES[category].maxSize

isOptimizable(category) == FILE_CATEGORIES[category].allowOptimization

----
\* Byte contents and upload requests drawn by the model

\* size in bytes; sniffed: what file-type detects from the magic bytes ("" when
\* nothing is detected); malicious: verdict of the malware scan; decodable:
\* whether the image decoder reports a positive width and height
Contents ==
  [jpegSmall |-> [size |-> 500 * 1024, sniffed |-> "image/jpeg",
                  malicious |-> FALSE, decodable |-> TRUE],
   jpegBig   |-> [size |-> 2 * MB, sniffed |-> "image/jpeg",
                  malicious |-> FALSE, decodable |-> TRUE],
   exe       |-> [size |-> 4096, sniffed |-> "application/x-msdownload",
                  malicious |-> TRUE, decodable |-> FALSE],
   pdf       |-> [size |-> 4096, sniffed |-> "application/pdf",
                  malicious |-> FALSE, decodable |-> FALSE],
   imageMax  |-> [size |-> getMaxSize("image"), sniffed |-> "image/jpeg",
                  malicious |-> FALSE, decodable |-> TRUE],
   imageOver |-> [size |-> getMaxSize("image") + 1, sniffed |-> "image/jpeg",
                  malicious |-> FALSE, decodable |-> TRUE],
   videoMax  |-> [size |-> getMaxSize("video"), sniffed |-> "video/mp4",
                  malicious |-> FALSE, decodable |-> FALSE],
   videoOver |-> [size |-> getMaxSize("video") + 1, sniffed |-> "video/mp4",
                  malicious |-> FALSE, decodable |-> FALSE],
   documentMax  |-> [size |-> getMaxSize("document"), sniffed |-> "application/pdf",
                     malicious |-> FALSE, decodable |-> FALSE],
   documentOver |-> [size |-> getMaxSize("document") + 1, sniffed |-> "application/pdf",
                     malicious |-> FALSE, decodable |-> FALSE],
   audioMax  |-> [size |-> getMaxSize("audio"), sniffed |-> "audio/mpeg",
                  malicious |-> FALSE, decodable |-> FALSE],
   audioOver |-> [size |-> getMaxSize("audio") + 1, sniffed |-> "audio/mpeg",
                  malicious |-> FALSE, decodable |-> FALSE],
   archiveMax  |-> [size |-> getMaxSize("archive"), sniffed |-> "application/zip",
                    malicious |-> FALSE, decodable |-> FALSE],
   archiveOver |-> [size |-> getMaxSize("archive") + 1, sniffed |-> "application/zip",
                    malicious |-> FALSE, decodable |-> FALSE],
   otherMax  |-> [size |-> getMaxSize("other"), sniffed |-> "",
                  malicious |-> FALSE, decodable |-> FALSE],
   otherOver |-> [size |-> getMaxSize("other") + 1, sniffed |-> "",
                  malicious |-> FALSE, decodable |-> FALSE]]

ContentNames == DOMAIN Contents

\* calculateFileHash: SHA-256 of the bytes
calculateFileHash(content) == content

\* the multipart file of a request: extension of the declared filename, declared
\* content type, bytes
Upload(ext, mimetype, content) ==
  [ext |-> ext, mimetype |-> mimetype, content |-> content]

\* filenames and content types that agree or disagree with each other and with
\* the bytes
UploadExtensions == {".jpg", ".JPG", ".pdf", ".zip", ".xyz", ""}
UploadMimeTypes == {"image/jpeg", "IMAGE/JPEG", "application/pdf", "video/mp4",
                    "application/octet-stream", "application/x-msdownload"}

\* a well-formed upload of each category whose size is the maxSize of the
\* category, and one that is one byte larger
BoundaryUploads ==
  {Upload(".jpg", "image/jpeg", "imageMax"),
   Upload(".jpg", "image/jpeg", "imageOver"),
   Upload(".mp4", "video/mp4", "videoMax"),
   Upload(".mp4", "video/mp4", "videoOver"),
   Upload(".pdf", "application/pdf", "documentMax"),
   Upload(".pdf", "application/pdf", "documentOver"),
   Upload(".mp3", "audio/mpeg", "audioMax"),
   Upload(".mp3", "audio/mpeg", "audioOver"),
   Upload(".zip", "application/zip", "archiveMax"),
   Upload(".zip", "application/zip", "archiveOver"),
   Upload(".xyz", "application/octet-stream", "otherMax"),
   Upload(".xyz", "application/octet-stream", "otherOver")}

\* the bytes of a well-formed document sent under an image filename and content
\* type
RelabelledUploads == {Upload(".jpg", "image/jpeg", "documentMax")}

\* bytes in which file-type detects nothing, under declared types that are and
\* are not text
UnsniffedUploads ==
  {Upload(".txt", mimetype, "otherMax") :
     mimetype \in {"text/plain", "text/csv", "image/jpeg", "application/pdf"}}

\* the uploads of the runs that exercise the admission checks
AdmissionUploads ==
  {Upload(ext, mimetype, "jpegSmall") : ext \in UploadExtensions,
                                        mimetype \in UploadMimeTypes}
    \cup {Upload(".jpg", mimetype, "exe") : mimetype \in UploadMimeTypes}
    \cup BoundaryUploads
    \cup RelabelledUploads

Uploads ==
  {[ext |-> ".jpg", mimetype |-> "image/jpeg", content |-> "jpegSmall"],
   [ext |-> ".jpg", mimetype |-> "image/jpeg", content |-> "jpegBig"],
   [ext |-> ".jpg", mimetype |-> "image/jpeg", content |-> "exe"],
   [ext |-> ".pdf", mimetype |-> "application/pdf", content |-> "pdf"]}

NoUpload == [ext |-> "", mimetype |-> "", content |-> ""]

\* an OptimizationOptions / DownloadOptions field that is undefined: 0 for
\* width, height (the code tests them for truthiness), NoQuality for quality,
\* "" for format
NoQuality == 0 - 1

NoOptions == [width |-> 0, height |-> 0, quality |-> NoQuality, format |-> ""]

\* a handler context without options that has called no image transform
NoCall == [storedFilename |-> <<>>, width |-> 0, height |-> 0, quality |-> NoQuality,
           format |-> "", cacheKey |-> <<>>,
           buffer |-> [content |-> "", width |-> 0, height |-> 0, quality |-> 0,
                       format |-> ""]]

----
\* shared/utils/file.util.ts and shared/services/validation.service.ts

ENABLE_MALWARE_SCAN == TRUE
ENABLE_MIME_VERIFICATION == TRUE

\* declaredMime.startsWith("text/") on the MIME strings of the category table
StartsWithText(mimeType) == mimeType \in {"text/plain", "text/csv"}

\* detectMimeFromBuffer: the sniffed type, "" for null
detectMimeFromBuffer(content) == Contents[content].sniffed

verifyMimeType(content, declaredMime) ==
  LET detectedMime == detectMimeFromBuffer(content)
  IN IF detectedMime = ""
     THEN \/ StartsWithText(declaredMime)
          \/ declaredMime = "application/json"
          \/ declaredMime = "application/xml"
     ELSE detectedMime = declaredMime

\* MalwareService.scanFile(...).safe
scanFileSafe(content, category) == ~Contents[content].malicious

\* MalwareService.validateImageIntegrity
malwareValidateImageIntegrity(content) == Contents[content].decodable

\* ValidationService.validateMimeType: the error and the warning it yields, ""
\* for none. readable: readFileChunk returns the prefix of the file; when it
\* throws, the catch answers valid with a warning
validateMimeTypeOutcome(readable, content, category, declaredMime, enableVerification) ==
  IF ~isAllowedMimeType(declaredMime, category)
  THEN [error |-> "MIME type is not allowed", warning |-> ""]
  ELSE IF ~enableVerification THEN [error |-> "", warning |-> ""]
  ELSE IF ~readable THEN [error |-> "", warning |-> "Could not verify MIME type"]
  ELSE IF ~verifyMimeType(content, declaredMime)
  THEN [error |-> "MIME type mismatch", warning |-> ""]
  ELSE [error |-> "", warning |-> ""]

\* ValidationService.validateMimeType on a file whose prefix can be read: the
\* error it yields, "" when the check passes
validateMimeType(content, category, declaredMime, enableVerification) ==
  validateMimeTypeOutcome(TRUE, content, category, declaredMime, enableVerification).error

\* ValidationService.validateFileSize
validateFileSize(content, category) ==
  IF Contents[content].size > FILE_CATEGORIES[category].maxSize
  THEN "File size exceeds maximum" ELSE ""

\* ValidationService.validateFile: the set of errors; valid iff it is empty.
\* exists: fs.access(filePath) succeeded; ext: extension of the stored filename
validateFileErrors(exists, ext, content, category, declaredMime) ==
  IF ~exists THEN {"File does not exist"}
  ELSE
    LET extErr == IF isAllowedExtension(ext, category) THEN {}
                  ELSE {"File extension is not allowed"}
        mimeErr == {validateMimeType(content, category, declaredMime,
                                     ENABLE_MIME_VERIFICATION)} \ {""}
        sizeErr == {validateFileSize(content, category)} \ {""}
        scanErr == IF ENABLE_MALWARE_SCAN /\ ~scanFileSafe(content, category)
                   THEN {"Security validation failed"} ELSE {}
        first == extErr \cup mimeErr \cup sizeErr \cup scanErr
        imageErr == IF category = "image" /\ first = {}
                       /\ ~malwareValidateImageIntegrity(content)
                    THEN {"Image file is corrupted or invalid"} ELSE {}
    IN first \cup imageErr

----
\* State

VARIABLES
  upload_tokens,     \* table upload_tokens: id -> row
  next_token_id,     \* its AUTO_INCREMENT counter
  token_usage_log,   \* table token_usage_log: sequence of rows in insertion order
  files,             \* table files: id -> row
  disk,              \* raw storage: stored filename -> [category, content]
  now,               \* the clock
  faults,            \* rejected calls so far
  arrivals,          \* upload requests that have arrived so far
  pc,                \* per slot: the await its request is suspended at
  rid,               \* per slot: arrival number of its request, 0 before the first
  uploadToken,       \* per slot: request.uploadToken (a token id, 0 when unset)
  file,              \* per slot: the multipart file
  result,            \* per slot: id of result.file of handleUpload, 0 when unset
  err,               \* per slot: the error caught by uploadFile, "" when none
  reply,             \* per slot: what the client is answered, "" while pending
  call,              \* per slot: its ImageService.processImage call, NoCall when none
  cache              \* cache/image directory: cache key -> the buffer written under it

vars == <<upload_tokens, next_token_id, token_usage_log, files, disk, now, faults,
          arrivals, pc, rid, uploadToken, file, result, err, reply, call, cache>>

dbVars == <<upload_tokens, next_token_id, token_usage_log, files>>
reqVars == <<arrivals, pc, rid, uploadToken, file, result, err, reply>>
imgVars == <<call, cache>>

TOKEN_DEFAULT_EXPIRY == 3600

\* bodies of POST /token/generate drawn by the model; 0 and "" are absent fields
TokenOptions ==
  {[category |-> "image", maxFileSize |-> MB, expiresIn |-> 1, maxUses |-> 0],
   [category |-> "", maxFileSize |-> 0, expiresIn |-> 0, maxUses |-> 2]}

\* a table without rows, a directory without files
EmptyTable == [x \in {} |-> 0]

\* f with the pair k :> v added or replaced
Put(f, k, v) == [x \in DOMAIN f \cup {k} |-> IF x = k THEN v ELSE f[x]]

\* f without the key k
Drop(f, k) == [x \in DOMAIN f \ {k} |-> f[x]]

\* a call that may reject: it rejects only while the fault budget lasts
CanFail == faults < MaxFaults

Init ==
  /\ upload_tokens = EmptyTable
  /\ next_token_id = 1
  /\ token_usage_log = <<>>
  /\ files = EmptyTable
  /\ disk = EmptyTable
  /\ now = 0
  /\ faults = 0
  /\ arrivals = 0
  /\ pc = [r \in Slots |-> "idle"]
  /\ rid = [r \in Slots |-> 0]
  /\ uploadToken = [r \in Slots |-> 0]
  /\ file = [r \in Slots |-> NoUpload]
  /\ result = [r \in Slots |-> 0]
  /\ err = [r \in Slots |-> ""]
  /\ reply = [r \in Slots |-> ""]
  /\ call = [r \in Slots |-> NoCall]
  /\ cache = EmptyTable

----
\* TokenService.generateToken / TokenRepository.create

GenerateToken(opt) ==
  /\ next_token_id <= MaxTokens
  /\ LET expiresIn == IF opt.expiresIn # 0 THEN opt.expiresIn ELSE TOKEN_DEFAULT_EXPIRY
         row == [allowed_category |-> IF opt.category # "" THEN opt.category ELSE "any",
                 max_file_size |-> opt.maxFileSize,
                 max_uses |-> IF opt.maxUses # 0 THEN opt.maxUses ELSE 1,
                 current_uses |-> 0,
                 is_active |-> TRUE,
                 is_used |-> FALSE,
                 expires_at |-> now + expiresIn,
                 used_at |-> NoTime]
     IN upload_tokens' = Put(upload_tokens, next_token_id, row)
  /\ next_token_id' = next_token_id + 1
  /\ UNCHANGED <<imgVars, token_usage_log, files, disk, now, faults, reqVars>>

\* time passes: the clock is observed again just after the expiry of some token
\* that has not expired yet
Tick ==
  /\ \E t \in DOMAIN upload_tokens :
        /\ upload_tokens[t].expires_at >= now
        /\ upload_tokens[t].expires_at + 1 <= MaxTime
        /\ now' = upload_tokens[t].expires_at + 1
  /\ UNCHANGED <<imgVars, dbVars, disk, faults, reqVars>>

----
\* validateToken without the check of is_active
validateTokenIgnoringActive(tokenTable, secret, time) ==
  IF secret \notin DOMAIN tokenTable
  THEN [valid |-> FALSE, reason |-> "Token not found"]
  ELSE LET tokenData == tokenTable[secret]
       IN IF tokenData.current_uses >= tokenData.max_uses
          THEN [valid |-> FALSE, reason |-> "Token has reached maximum usage limit"]
          ELSE IF tokenData.is_used /\ tokenData.max_uses = 1
          THEN [valid |-> FALSE, reason |-> "Token has already been used"]
          ELSE IF tokenData.expires_at # NoTime /\ tokenData.expires_at < time
          THEN [valid |-> FALSE, reason |-> "Token has expired"]
          ELSE [valid |-> TRUE, reason |-> ""]

\* validateToken without the checks of current_uses and is_used
validateTokenIgnoringUses(tokenTable, secret, time) ==
  IF secret \notin DOMAIN tokenTable
  THEN [valid |-> FALSE, reason |-> "Token not found"]
  ELSE LET tokenData == tokenTable[secret]
       IN IF ~tokenData.is_active
          THEN [valid |-> FALSE, reason |-> "Token is not active"]
          ELSE IF tokenData.expires_at # NoTime /\ tokenData.expires_at < time
          THEN [valid |-> FALSE, reason |-> "Token has expired"]
          ELSE [valid |-> TRUE, reason |-> ""]

\* TokenRepository.validateToken: [valid, reason]; the secret of token id is id,
\* every other secret matches no row

validateToken(tokenTable, secret, time) ==
  IF secret \notin DOMAIN tokenTable
  THEN [valid |-> FALSE, reason |-> "Token not found"]
  ELSE LET tokenData == tokenTable[secret]
       IN IF ~tokenData.is_active
          THEN [valid |-> FALSE, reason |-> "Token is not active"]
          ELSE IF tokenData.current_uses >= tokenData.max_uses
          THEN [valid |-> FALSE, reason |-> "Token has reached maximum usage limit"]
          ELSE IF tokenData.is_used /\ tokenData.max_uses = 1
          THEN [valid |-> FALSE, reason |-> "Token has already been used"]
          ELSE IF tokenData.expires_at # NoTime /\ tokenData.expires_at < time
          THEN [valid |-> FALSE, reason |-> "Token has expired"]
          ELSE [valid |-> TRUE, reason |-> ""]

\* the request is answered and its handler ends; the multipart stream is gone
Answer(r, answer) ==
  /\ reply' = [reply EXCEPT ![r] = answer]
  /\ pc' = [pc EXCEPT ![r] = "done"]
  /\ file' = [file EXCEPT ![r] = NoUpload]

\* a slot that handles no request
Free(r) == pc[r] \in {"idle", "done"}

\* the next request arrives and is handled in the lowest free slot, while fewer
\* than maxReqs requests have arrived and fewer than maxInFlight are being handled
Arrives(r, maxReqs, maxInFlight) ==
  /\ arrivals < maxReqs
  /\ Cardinality({q \in Slots : ~Free(q)}) < maxInFlight
  /\ Free(r)
  /\ \A q \in Slots : q < r => ~Free(q)
  /\ arrivals' = arrivals + 1
  /\ rid' = [rid EXCEPT ![r] = arrivals + 1]
  /\ result' = [result EXCEPT ![r] = 0]
  /\ err' = [err EXCEPT ![r] = ""]

\* shared/middleware/auth.middleware.ts: preHandler of POST /upload.
\* secret: the X-Upload-Token header, 0 when the header is absent
AuthMiddleware(r, secret, maxReqs, maxInFlight) ==
  /\ Arrives(r, maxReqs, maxInFlight)
  /\ \/ /\ secret = 0
        /\ Answer(r, "AUTH_TOKEN_MISSING")
        /\ uploadToken' = [uploadToken EXCEPT ![r] = 0]
        /\ faults' = faults
     \/ /\ secret # 0
        /\ ~validateToken(upload_tokens, secret, now).valid
        /\ Answer(r, "AUTH_TOKEN_INVALID")
        /\ uploadToken' = [uploadToken EXCEPT ![r] = 0]
        /\ faults' = faults
     \/ /\ secret # 0
        /\ validateToken(upload_tokens, secret, now).valid
        /\ uploadToken' = [uploadToken EXCEPT ![r] = secret]
        /\ pc' = [pc EXCEPT ![r] = "file"]
        /\ reply' = [reply EXCEPT ![r] = ""]
        /\ UNCHANGED <<file, faults>>
     \/ /\ secret # 0
        /\ CanFail
        /\ faults' = faults + 1
        /\ Answer(r, "AUTH_TOKEN_INVALID")
        /\ uploadToken' = [uploadToken EXCEPT ![r] = 0]
  /\ UNCHANGED <<imgVars, dbVars, disk, now>>

----
\* modules/v1/services/upload.service.ts and controllers/cdn.controller.ts

\* handleUpload classifying by the extension before the declared MIME type
classifyByExtensionFirst(f) ==
  LET categoryFromExt == detectCategoryFromExtension(f.ext)
      categoryFromMime == detectCategoryFromMimeType(f.mimetype)
  IN IF categoryFromExt # "other" THEN categoryFromExt ELSE categoryFromMime

\* UploadService.handleUpload: the category of a multipart file
classify(f) ==
  LET categoryFromExt == detectCategoryFromExtension(f.ext)
      categoryFromMime == detectCategoryFromMimeType(f.mimetype)
  IN IF categoryFromMime # "other" THEN categoryFromMime ELSE categoryFromExt

\* the snapshot of the token row taken by the middleware; allowed_category and
\* max_file_size of a row never change
TokenOf(r) == upload_tokens[uploadToken[r]]

\* StorageService.deleteFile: unlink, every error swallowed
deleteFile(dir, storedFilename) ==
  IF storedFilename \in DOMAIN dir THEN Drop(dir, storedFilename) ELSE dir

\* an error is thrown inside handleUpload after saveStream: its catch block
\* calls deleteFile
ThrowInHandleUpload(r, error) ==
  /\ err' = [err EXCEPT ![r] = error]
  /\ pc' = [pc EXCEPT ![r] = "rollback"]

\* an error reaches the catch block of uploadFile, which calls logFailedUsage
ThrowInUploadFile(r, error) ==
  /\ err' = [err EXCEPT ![r] = error]
  /\ pc' = [pc EXCEPT ![r] = "logFailedUsage"]

\* handleUpload without the category restriction of the token
ReceiveFileIgnoringCategory(r, f) ==
  /\ pc[r] = "file"
  /\ IF f = NoUpload
     THEN /\ Answer(r, "FILE_NOT_PROVIDED")
          /\ err' = err
     ELSE /\ file' = [file EXCEPT ![r] = f]
          /\ reply' = reply
          /\ pc' = [pc EXCEPT ![r] = "saveStream"]
          /\ err' = err
  /\ UNCHANGED <<imgVars, dbVars, disk, now, faults, arrivals, rid, uploadToken, result>>

\* CdnController.uploadFile: await request.file(), then handleUpload up to the
\* call of saveStream
ReceiveFile(r, f) ==
  /\ pc[r] = "file"
  /\ IF f = NoUpload
     THEN /\ Answer(r, "FILE_NOT_PROVIDED")
          /\ err' = err
     ELSE /\ file' = [file EXCEPT ![r] = f]
          /\ reply' = reply
          /\ IF /\ TokenOf(r).allowed_category # "any"
                /\ TokenOf(r).allowed_category # classify(f)
             THEN ThrowInUploadFile(r, "FILE_CATEGORY_MISMATCH")
             ELSE /\ pc' = [pc EXCEPT ![r] = "saveStream"]
                  /\ err' = err
  /\ UNCHANGED <<imgVars, dbVars, disk, now, faults, arrivals, rid, uploadToken, result>>

\* a saveStream whose promise never settles: the handler stays at its await
SaveStreamNeverSettling(r) ==
  /\ pc[r] = "saveStream"
  /\ UNCHANGED vars

\* await storageService.saveStream in handleUpload: the bytes are written and
\* hashed
SaveStream(r) ==
  /\ pc[r] = "saveStream"
  /\ \/ /\ CanFail
        /\ faults' = faults + 1
        /\ ThrowInUploadFile(r, "STORAGE_ERROR")
        /\ disk' = disk
     \/ /\ disk' = Put(disk, rid[r], [category |-> classify(file[r]),
                                      content |-> file[r].content])
        /\ pc' = [pc EXCEPT ![r] = "sizeCheck"]
        /\ UNCHANGED <<faults, err>>
  /\ UNCHANGED <<imgVars, dbVars, now, arrivals, rid, uploadToken, file, result, reply>>

\* the size limit of an upload: token.max_file_size || getMaxSize(category)
maxSizeOf(tokenMax, category) ==
  IF tokenMax # 0 THEN tokenMax ELSE getMaxSize(category)

\* handleUpload rejecting a file whose size equals the limit
SizeCheckRejectingEqual(r) ==
  /\ pc[r] = "sizeCheck"
  /\ pc' = [pc EXCEPT ![r] =
              IF Contents[disk[rid[r]].content].size
                   >= maxSizeOf(TokenOf(r).max_file_size, classify(file[r]))
              THEN "deleteTooLarge" ELSE "findByHash"]
  /\ UNCHANGED <<imgVars, dbVars, disk, now, faults, arrivals, rid, uploadToken, file, result,
                 err, reply>>

\* the size check of handleUpload on tempResult.fileSize
SizeCheck(r) ==
  /\ pc[r] = "sizeCheck"
  /\ pc' = [pc EXCEPT ![r] =
              IF Contents[disk[rid[r]].content].size
                   > maxSizeOf(TokenOf(r).max_file_size, classify(file[r]))
              THEN "deleteTooLarge" ELSE "findByHash"]
  /\ UNCHANGED <<imgVars, dbVars, disk, now, faults, arrivals, rid, uploadToken, file, result,
                 err, reply>>

\* deleteFile of the size check, then throw FILE_TOO_LARGE
DeleteTooLarge(r) ==
  /\ pc[r] = "deleteTooLarge"
  /\ disk' = deleteFile(disk, rid[r])
  /\ ThrowInHandleUpload(r, "FILE_TOO_LARGE")
  /\ UNCHANGED <<imgVars, dbVars, now, faults, arrivals, rid, uploadToken, file, result, reply>>

\* FileRepository.findByHash: ids of the rows the SELECT returns
findByHash(table, hash) ==
  {id \in DOMAIN table : /\ table[id].hash_sha256 = hash
                         /\ table[id].is_validated
                         /\ table[id].validation_status = "safe"}

\* await fileRepository.findByHash in handleUpload
FindByHash(r) ==
  /\ pc[r] = "findByHash"
  /\ \/ /\ CanFail
        /\ faults' = faults + 1
        /\ ThrowInHandleUpload(r, "DB_ERROR findByHash")
        /\ result' = result
     \/ /\ LET rows == findByHash(files, calculateFileHash(disk[rid[r]].content))
           IN IF rows = {}
              THEN /\ pc' = [pc EXCEPT ![r] = "validateFile"]
                   /\ result' = result
              ELSE /\ pc' = [pc EXCEPT ![r] = "deleteDuplicate"]
                   /\ result' = [result EXCEPT ![r] =
                                   CHOOSE id \in rows : \A o \in rows : id <= o]
        /\ UNCHANGED <<faults, err>>
  /\ UNCHANGED <<imgVars, dbVars, disk, now, arrivals, rid, uploadToken, file, reply>>

\* handleUpload returning the existing record without deleting the duplicate
DeleteDuplicateKeepingFile(r) ==
  /\ pc[r] = "deleteDuplicate"
  /\ pc' = [pc EXCEPT ![r] = "markAsUsed"]
  /\ UNCHANGED <<imgVars, dbVars, disk, now, faults, arrivals, rid, uploadToken, file, result, err, reply>>

\* deleteFile of the duplicate, then handleUpload returns the existing record and
\* uploadFile calls markTokenAsUsed
DeleteDuplicate(r) ==
  /\ pc[r] = "deleteDuplicate"
  /\ disk' = deleteFile(disk, rid[r])
  /\ pc' = [pc EXCEPT ![r] = "markAsUsed"]
  /\ UNCHANGED <<imgVars, dbVars, now, faults, arrivals, rid, uploadToken, file, result, err, reply>>

\* validateFile with its result ignored
ValidateFileIgnoringResult(r) ==
  /\ pc[r] = "validateFile"
  /\ pc' = [pc EXCEPT ![r] = "create"]
  /\ UNCHANGED <<imgVars, dbVars, disk, now, faults, arrivals, rid, uploadToken, file, result, err, reply>>

\* a validation that applies the whitelists only to the categories that have
\* one
ValidateFilePassingUnlisted(r) ==
  /\ pc[r] = "validateFile"
  /\ LET errors == IF classify(file[r]) = "other" THEN {}
                   ELSE validateFileErrors(rid[r] \in DOMAIN disk, file[r].ext,
                                           file[r].content, classify(file[r]),
                                           file[r].mimetype)
     IN pc' = [pc EXCEPT ![r] = IF errors = {} THEN "create" ELSE "deleteInvalid"]
  /\ UNCHANGED <<imgVars, dbVars, disk, now, faults, arrivals, rid, uploadToken, file, result, err, reply>>

\* await validationService.validateFile in handleUpload
ValidateFile(r) ==
  /\ pc[r] = "validateFile"
  /\ LET errors == validateFileErrors(rid[r] \in DOMAIN disk, file[r].ext, file[r].content,
                                      classify(file[r]), file[r].mimetype)
     IN pc' = [pc EXCEPT ![r] = IF errors = {} THEN "create" ELSE "deleteInvalid"]
  /\ UNCHANGED <<imgVars, dbVars, disk, now, faults, arrivals, rid, uploadToken, file, result, err, reply>>

\* deleteFile of the failed validation, then throw SECURITY_VALIDATION_FAILED
DeleteInvalid(r) ==
  /\ pc[r] = "deleteInvalid"
  /\ disk' = deleteFile(disk, rid[r])
  /\ ThrowInHandleUpload(r, "SECURITY_VALIDATION_FAILED")
  /\ UNCHANGED <<imgVars, dbVars, now, faults, arrivals, rid, uploadToken, file, result, reply>>

\* table files without the UNIQUE key on hash_sha256
DuplicateKeyWithoutHash(table, id, storedFilename, hash) ==
  \/ id \in DOMAIN table
  \/ \E o \in DOMAIN table : table[o].stored_filename = storedFilename

\* the INSERT of FileRepository.create violates a UNIQUE key of table files
DuplicateKey(table, id, storedFilename, hash) ==
  \/ id \in DOMAIN table
  \/ \E o \in DOMAIN table : \/ table[o].stored_filename = storedFilename
                             \/ table[o].hash_sha256 = hash

\* the row FileRepository.create inserts for request r
NewFileRow(r) ==
  [stored_filename |-> rid[r],
   category |-> classify(file[r]),
   mime_type |-> file[r].mimetype,
   file_size |-> Contents[file[r].content].size,
   file_extension |-> file[r].ext,
   hash_sha256 |-> calculateFileHash(file[r].content),
   is_validated |-> FALSE,
   validation_status |-> "pending",
   uploaded_by_token |-> uploadToken[r],
   download_count |-> 0]

\* handleUpload returning the record before it is inserted
CreateSkippingInsert(r) ==
  /\ pc[r] = "create"
  /\ result' = [result EXCEPT ![r] = rid[r]]
  /\ pc' = [pc EXCEPT ![r] = "markAsUsed"]
  /\ UNCHANGED <<imgVars, dbVars, disk, now, faults, arrivals, rid, uploadToken, file, err, reply>>

\* await fileRepository.create in handleUpload: INSERT, then findById
Create(r) ==
  /\ pc[r] = "create"
  /\ \/ /\ DuplicateKey(files, rid[r], rid[r], calculateFileHash(file[r].content))
        /\ ThrowInHandleUpload(r, "ER_DUP_ENTRY")
        /\ UNCHANGED <<files, faults>>
     \/ /\ CanFail
        /\ faults' = faults + 1
        /\ ThrowInHandleUpload(r, "DB_ERROR create")
        /\ \/ files' = files
           \/ /\ ~DuplicateKey(files, rid[r], rid[r], calculateFileHash(file[r].content))
              /\ files' = Put(files, rid[r], NewFileRow(r))
     \/ /\ ~DuplicateKey(files, rid[r], rid[r], calculateFileHash(file[r].content))
        /\ files' = Put(files, rid[r], NewFileRow(r))
        /\ pc' = [pc EXCEPT ![r] = "update"]
        /\ UNCHANGED <<faults, err>>
  /\ UNCHANGED <<imgVars, upload_tokens, next_token_id, token_usage_log, disk, now,
                 arrivals, rid, uploadToken, file, result, reply>>

\* FileRepository.update(id, {is_validated: true, validation_status: "safe"})
MarkSafe(table, id) ==
  IF id \in DOMAIN table
  THEN [table EXCEPT ![id].is_validated = TRUE, ![id].validation_status = "safe"]
  ELSE table

\* await fileRepository.update in handleUpload: UPDATE, then findById; then
\* handleUpload returns the created record and uploadFile calls markTokenAsUsed
Update(r) ==
  /\ pc[r] = "update"
  /\ \/ /\ CanFail
        /\ faults' = faults + 1
        /\ ThrowInHandleUpload(r, "DB_ERROR update")
        /\ files' \in {files, MarkSafe(files, rid[r])}
        /\ result' = result
     \/ /\ files' = MarkSafe(files, rid[r])
        /\ result' = [result EXCEPT ![r] = rid[r]]
        /\ pc' = [pc EXCEPT ![r] = "markAsUsed"]
        /\ UNCHANGED <<faults, err>>
  /\ UNCHANGED <<imgVars, upload_tokens, next_token_id, token_usage_log, disk, now,
                 arrivals, rid, uploadToken, file, reply>>

\* the catch block of handleUpload without its deleteFile
RollbackKeepingFile(r) ==
  /\ pc[r] = "rollback"
  /\ pc' = [pc EXCEPT ![r] = "logFailedUsage"]
  /\ UNCHANGED <<imgVars, dbVars, disk, now, faults, arrivals, rid, uploadToken, file, result, err, reply>>

\* the catch block of handleUpload with an unlink whose error is not swallowed:
\* the deletion of a missing file replaces the error being rethrown
RollbackRaisingOnMissing(r) ==
  /\ pc[r] = "rollback"
  /\ disk' = deleteFile(disk, rid[r])
  /\ err' = [err EXCEPT ![r] = IF rid[r] \in DOMAIN disk THEN @ ELSE "ENOENT"]
  /\ pc' = [pc EXCEPT ![r] = "logFailedUsage"]
  /\ UNCHANGED <<imgVars, dbVars, now, faults, arrivals, rid, uploadToken, file, result, reply>>

\* the catch block of handleUpload: deleteFile, then rethrow to uploadFile
Rollback(r) ==
  /\ pc[r] = "rollback"
  /\ disk' = deleteFile(disk, rid[r])
  /\ pc' = [pc EXCEPT ![r] = "logFailedUsage"]
  /\ UNCHANGED <<imgVars, dbVars, now, faults, arrivals, rid, uploadToken, file, result, err, reply>>

\* TokenRepository.markAsUsed: the UPDATE of upload_tokens
markAsUsed(tokenTable, id, time) ==
  IF id \in DOMAIN tokenTable
  THEN [tokenTable EXCEPT ![id].is_used = TRUE,
                          ![id].used_at = time,
                          ![id].current_uses = @ + 1]
  ELSE tokenTable

\* TokenService.markTokenAsUsed, first await: tokenRepository.markAsUsed
MarkAsUsed(r) ==
  /\ pc[r] = "markAsUsed"
  /\ \/ /\ CanFail
        /\ faults' = faults + 1
        /\ ThrowInUploadFile(r, "DB_ERROR markAsUsed")
        /\ upload_tokens' = upload_tokens
     \/ /\ upload_tokens' = markAsUsed(upload_tokens, uploadToken[r], now)
        /\ pc' = [pc EXCEPT ![r] = "logUsage"]
        /\ UNCHANGED <<faults, err>>
  /\ UNCHANGED <<imgVars, next_token_id, token_usage_log, files, disk, now,
                 arrivals, rid, uploadToken, file, result, reply>>

\* TokenRepository.logUsage: the INSERT into token_usage_log
logUsage(log, tokenId, fileId, status) ==
  Append(log, [token_id |-> tokenId, file_id |-> fileId, status |-> status])

\* TokenService.markTokenAsUsed, second await: logUsage with status success;
\* then uploadFile replies 200
LogUsage(r) ==
  /\ pc[r] = "logUsage"
  /\ \/ /\ CanFail
        /\ faults' = faults + 1
        /\ ThrowInUploadFile(r, "DB_ERROR logUsage")
        /\ UNCHANGED <<token_usage_log, reply, file>>
     \/ /\ token_usage_log' = logUsage(token_usage_log, uploadToken[r], result[r], "success")
        /\ Answer(r, "success")
        /\ UNCHANGED <<faults, err>>
  /\ UNCHANGED <<imgVars, upload_tokens, next_token_id, files, disk, now,
                 arrivals, rid, uploadToken, result>>

\* a catch block of uploadFile that counts the failed attempt as a use
LogFailedUsageConsuming(r) ==
  /\ pc[r] = "logFailedUsage"
  /\ upload_tokens' = markAsUsed(upload_tokens, uploadToken[r], now)
  /\ token_usage_log' = logUsage(token_usage_log, uploadToken[r], 0, "failed")
  /\ Answer(r, err[r])
  /\ UNCHANGED <<imgVars, next_token_id, files, disk, now, faults,
                 arrivals, rid, uploadToken, result, err>>

\* a catch block of uploadFile that rethrows without logging
LogFailedUsageSkippingLog(r) ==
  /\ pc[r] = "logFailedUsage"
  /\ Answer(r, err[r])
  /\ UNCHANGED <<imgVars, dbVars, disk, now, faults, arrivals, rid, uploadToken, result, err>>

\* TokenService.logFailedUsage in the catch block of uploadFile, then the caught
\* error is rethrown; when the logging itself rejects, its error is thrown instead
LogFailedUsage(r) ==
  /\ pc[r] = "logFailedUsage"
  /\ \/ /\ CanFail
        /\ faults' = faults + 1
        /\ token_usage_log' = token_usage_log
        /\ Answer(r, "DB_ERROR logUsage")
     \/ /\ token_usage_log' = logUsage(token_usage_log, uploadToken[r], 0, "failed")
        /\ Answer(r, err[r])
        /\ faults' = faults
  /\ UNCHANGED <<imgVars, upload_tokens, next_token_id, files, disk, now,
                 arrivals, rid, uploadToken, result, err>>

----
\* the steps of the requests that have been admitted
Handle(r) ==
  \/ \E f \in Uploads \cup {NoUpload} : ReceiveFile(r, f)
  \/ SaveStream(r)
  \/ SizeCheck(r)
  \/ DeleteTooLarge(r)
  \/ FindByHash(r)
  \/ DeleteDuplicate(r)
  \/ ValidateFile(r)
  \/ DeleteInvalid(r)
  \/ Create(r)
  \/ Update(r)
  \/ Rollback(r)
  \/ MarkAsUsed(r)
  \/ LogUsage(r)
  \/ LogFailedUsage(r)

\* NumReqs requests, up to MaxInFlight of them handled concurrently
Next ==
  \/ \E opt \in TokenOptions : GenerateToken(opt)
  \/ Tick
  \/ \E r \in Slots, secret \in {0} \cup TokenIds :
       AuthMiddleware(r, secret, NumReqs, MaxInFlight)
  \/ \E r \in Slots : Handle(r)

Spec == Init /\ [][Next]_vars

\* every awaited call of a request that is being handled returns or rejects,
\* and the event loop then runs the continuation of the handler
Fairness == \A r \in Slots : WF_vars(Handle(r))

\* NumReqs requests, up to MaxInFlight of them handled concurrently, while the
\* clock stands still (no step of a handler waits for the clock)
NextLive ==
  \/ \E opt \in TokenOptions : GenerateToken(opt)
  \/ \E r \in Slots, secret \in {0} \cup TokenIds :
       AuthMiddleware(r, secret, NumReqs, MaxInFlight)
  \/ \E r \in Slots : Handle(r)

SpecLive == Init /\ [][NextLive]_vars /\ Fairness

\* NumSeqReqs requests, each arriving after the previous one has been answered
NextSeq ==
  \/ \E opt \in TokenOptions : GenerateToken(opt)
  \/ Tick
  \/ \E r \in Slots, secret \in {0} \cup TokenIds :
       AuthMiddleware(r, secret, NumSeqReqs, 1)
  \/ \E r \in Slots : Handle(r)

SpecSeq == Init /\ [][NextSeq]_vars

----
\* Runs that exercise the admission checks of handleUpload: classification,
\* category restriction, size limits, validation

NumAdmReqs == 2     \* upload requests of such a run, one at a time

\* tokens restricted to images with a limit below the category's, without
\* restriction or limit, and with a limit above the maxSize of some categories
AdmissionTokenOptions ==
  {[category |-> "image", maxFileSize |-> MB, expiresIn |-> 0, maxUses |-> 2],
   [category |-> "", maxFileSize |-> 0, expiresIn |-> 0, maxUses |-> 2],
   [category |-> "", maxFileSize |-> 50 * MB, expiresIn |-> 0, maxUses |-> 2]}

\* NumAdmReqs requests, each arriving after the previous one has been answered
NextAdmission ==
  \/ \E opt \in AdmissionTokenOptions : GenerateToken(opt)
  \/ \E r \in Slots, secret \in {0} \cup TokenIds :
       AuthMiddleware(r, secret, NumAdmReqs, 1)
  \/ \E r \in Slots, f \in AdmissionUploads \cup Uploads \cup {NoUpload} : ReceiveFile(r, f)
  \/ \E r \in Slots : Handle(r)

SpecAdmission == Init /\ [][NextAdmission]_vars

----
\* shared/services/validation.service.ts: validateMimeType called on a saved
\* file with the category and the declared type that handleUpload passes, the
\* read of the prefix succeeding or not.  err[r] holds the error and reply[r]
\* the warning of the last call made in slot r.

ValidationValidateMimeType(r, f, readable) ==
  /\ pc[r] \in {"idle", "validated"}
  /\ LET outcome == validateMimeTypeOutcome(readable, f.content, classify(f), f.mimetype,
                                            ENABLE_MIME_VERIFICATION)
     IN /\ err' = [err EXCEPT ![r] = outcome.error]
        /\ reply' = [reply EXCEPT ![r] = outcome.warning]
  /\ file' = [file EXCEPT ![r] = f]
  /\ pc' = [pc EXCEPT ![r] = "validated"]
  /\ UNCHANGED <<imgVars, dbVars, disk, now, faults, arrivals, rid, uploadToken, result>>

NextValidation ==
  \E r \in Slots, f \in AdmissionUploads \cup UnsniffedUploads, readable \in BOOLEAN :
    ValidationValidateMimeType(r, f, readable)

SpecValidation == Init /\ [][NextValidation]_vars

----
\* modules/v1/services/download.service.ts: GET /files/:identifier without
\* w, h and format, handled in the same slots as the uploads. result[r] holds
\* the identifier and then the record it resolves to; the id of a record and
\* its stored filename are the arrival number of the upload that created it.

NumDlUploads == 2   \* arrivals that may be uploads in a run with downloads
NumDlReqs == 4      \* uploads and downloads in a run with downloads

Identifiers == 1..NumDlUploads

\* CdnController.downloadFile: the request arrives in the lowest free slot and
\* streamFile is called with the identifier and the options of the query
StartDownload(r, identifier, options, maxReqs, maxInFlight) ==
  /\ arrivals < maxReqs
  /\ Cardinality({q \in Slots : ~Free(q)}) < maxInFlight
  /\ Free(r)
  /\ \A q \in Slots : q < r => ~Free(q)
  /\ arrivals' = arrivals + 1
  /\ rid' = [rid EXCEPT ![r] = 0]
  /\ result' = [result EXCEPT ![r] = identifier]
  /\ uploadToken' = [uploadToken EXCEPT ![r] = 0]
  /\ call' = [call EXCEPT ![r] = [NoCall EXCEPT !.width = options.width,
                                                 !.height = options.height,
                                                 !.quality = options.quality,
                                                 !.format = options.format]]
  /\ pc' = [pc EXCEPT ![r] = "findById"]
  /\ reply' = [reply EXCEPT ![r] = ""]
  /\ err' = [err EXCEPT ![r] = ""]
  /\ UNCHANGED <<cache, dbVars, disk, now, faults, file>>

\* streamFile: findById, then findByStoredFilename, else FILE_NOT_FOUND
DownloadFindById(r) ==
  /\ pc[r] = "findById"
  /\ \/ /\ CanFail
        /\ faults' = faults + 1
        /\ Answer(r, "DB_ERROR findById")
     \/ /\ result[r] \in DOMAIN files
        /\ pc' = [pc EXCEPT ![r] = "fileExists"]
        /\ UNCHANGED <<faults, reply, file>>
     \/ /\ result[r] \notin DOMAIN files
        /\ Answer(r, "FILE_NOT_FOUND")
        /\ faults' = faults
  /\ UNCHANGED <<imgVars, dbVars, disk, now, arrivals, rid, uploadToken, result, err>>

\* StorageService.fileExists: fs.access, FALSE on any error
fileExists(dir, storedFilename) == storedFilename \in DOMAIN dir

\* streamFile: await storageService.fileExists, else FILE_NOT_FOUND
DownloadFileExists(r) ==
  /\ pc[r] = "fileExists"
  /\ IF fileExists(disk, result[r])
     THEN /\ pc' = [pc EXCEPT ![r] = "incrementDownloadCount"]
          /\ UNCHANGED <<reply, file>>
     ELSE Answer(r, "FILE_NOT_FOUND")
  /\ UNCHANGED <<imgVars, dbVars, disk, now, faults, arrivals, rid, uploadToken, result, err>>

\* FileRepository.incrementDownloadCount: one UPDATE, download_count + 1
incrementDownloadCount(table, id) ==
  IF id \in DOMAIN table
  THEN [table EXCEPT ![id].download_count = @ + 1]
  ELSE table

\* streamFile without the call of incrementDownloadCount
DownloadIncrementSkipped(r) ==
  /\ pc[r] = "incrementDownloadCount"
  /\ pc' = [pc EXCEPT ![r] = "stream"]
  /\ UNCHANGED <<imgVars, dbVars, disk, now, faults, arrivals, rid, uploadToken, file, result, err, reply>>

\* streamFile: await fileRepository.incrementDownloadCount; a rejected call
\* (applied or not) ends streamFile with its error
DownloadIncrement(r) ==
  /\ pc[r] = "incrementDownloadCount"
  /\ \/ /\ CanFail
        /\ faults' = faults + 1
        /\ files' \in {files, incrementDownloadCount(files, result[r])}
        /\ Answer(r, "DB_ERROR incrementDownloadCount")
     \/ /\ files' = incrementDownloadCount(files, result[r])
        /\ pc' = [pc EXCEPT ![r] = "stream"]
        /\ UNCHANGED <<faults, reply, file>>
  /\ UNCHANGED <<imgVars, upload_tokens, next_token_id, token_usage_log, disk, now,
                 arrivals, rid, uploadToken, result, err>>

\* a streamFile that also sends a request with a quality through the transform
OptimizedOnQuality(r) ==
  /\ files[result[r]].category = "image"
  /\ \/ call[r].width # 0
     \/ call[r].height # 0
     \/ call[r].format # ""
     \/ call[r].quality # NoQuality

\* streamFile: the download goes through the image transform when the record
\* is an image and a width, a height or a format is asked for
Optimized(r) ==
  /\ files[result[r]].category = "image"
  /\ (call[r].width # 0 \/ call[r].height # 0 \/ call[r].format # "")

\* streamOriginalFile: fs.stat of the stored file (ENOENT when it is gone),
\* then reply.send of its stream
DownloadStream(r) ==
  /\ pc[r] = "stream"
  /\ ~Optimized(r)
  /\ IF result[r] \in DOMAIN disk
     THEN Answer(r, "served")
     ELSE Answer(r, "ENOENT")
  /\ UNCHANGED <<imgVars, dbVars, disk, now, faults, arrivals, rid, uploadToken, result, err>>

\* the steps of the downloads
Download(r) ==
  \/ DownloadFindById(r)
  \/ DownloadFileExists(r)
  \/ DownloadIncrement(r)
  \/ DownloadStream(r)

\* NumDlReqs requests, up to MaxInFlight at a time; an upload is one of the
\* first NumDlUploads requests and arrives when no request is being handled,
\* a download arrives at any time
NextDownload ==
  \/ \E opt \in TokenOptions : GenerateToken(opt)
  \/ \E r \in Slots, secret \in {0} \cup TokenIds :
       AuthMiddleware(r, secret, NumDlUploads, 1)
  \/ \E r \in Slots : Handle(r)
  \/ \E r \in Slots, identifier \in Identifiers :
       StartDownload(r, identifier, NoOptions, NumDlReqs, MaxInFlight)
  \/ \E r \in Slots : Download(r)

SpecDownload == Init /\ [][NextDownload]_vars

----
\* database/repositories/token.repository.ts called by any caller: the token
\* store on its own, with the methods no route of the service calls
\* (incrementUsageCount, deactivate, deleteExpiredTokens) and create called
\* with or without expires_at

MaxCount == 3       \* current_uses of a row stays within 0..MaxCount
MaxLog == 2         \* rows of token_usage_log written through logUsage alone

storeFrame == <<files, disk, faults, reqVars, imgVars>>

\* CreateTokenInput: max_uses 0 and expires_at NoTime stand for undefined
CreateTokenInputs ==
  [allowed_category : {"any"}, max_file_size : {0},
   max_uses : {0, 2}, expires_at : {NoTime, 1}]

\* TokenRepository.create: the INSERT into upload_tokens
TokenCreate(input) ==
  /\ next_token_id <= MaxTokens
  /\ upload_tokens' =
       Put(upload_tokens, next_token_id,
           [allowed_category |-> input.allowed_category,
            max_file_size |-> input.max_file_size,
            max_uses |-> IF input.max_uses # 0 THEN input.max_uses ELSE 1,
            current_uses |-> 0,
            is_active |-> TRUE,
            is_used |-> FALSE,
            expires_at |-> input.expires_at,
            used_at |-> NoTime])
  /\ next_token_id' = next_token_id + 1
  /\ UNCHANGED <<token_usage_log, now, storeFrame>>

\* TokenRepository.markAsUsed called for a stored row
TokenMarkAsUsed(id) ==
  /\ id \in DOMAIN upload_tokens
  /\ upload_tokens[id].current_uses < MaxCount
  /\ upload_tokens' = markAsUsed(upload_tokens, id, now)
  /\ UNCHANGED <<next_token_id, token_usage_log, now, storeFrame>>

\* TokenRepository.incrementUsageCount: current_uses + 1, is_used untouched
incrementUsageCount(tokenTable, id) ==
  IF id \in DOMAIN tokenTable
  THEN [tokenTable EXCEPT ![id].current_uses = @ + 1]
  ELSE tokenTable

TokenIncrementUsageCount(id) ==
  /\ id \in DOMAIN upload_tokens
  /\ upload_tokens[id].current_uses < MaxCount
  /\ upload_tokens' = incrementUsageCount(upload_tokens, id)
  /\ UNCHANGED <<next_token_id, token_usage_log, now, storeFrame>>

\* TokenRepository.deactivate: is_active = FALSE
deactivate(tokenTable, id) ==
  IF id \in DOMAIN tokenTable
  THEN [tokenTable EXCEPT ![id].is_active = FALSE]
  ELSE tokenTable

TokenDeactivate(id) ==
  /\ id \in DOMAIN upload_tokens
  /\ upload_tokens[id].is_active
  /\ upload_tokens' = deactivate(upload_tokens, id)
  /\ UNCHANGED <<next_token_id, token_usage_log, now, storeFrame>>

\* TokenRepository.logUsage called for a stored row (token_id is a foreign
\* key of upload_tokens)
TokenLogUsage(id, status) ==
  /\ id \in DOMAIN upload_tokens
  /\ Len(token_usage_log) < MaxLog
  /\ token_usage_log' = logUsage(token_usage_log, id, 0, status)
  /\ UNCHANGED <<upload_tokens, next_token_id, now, storeFrame>>

\* the rows DELETE ... WHERE expires_at IS NOT NULL AND expires_at < CURRENT_TIMESTAMP removes
ExpiredTokens(tokenTable, time) ==
  {t \in DOMAIN tokenTable : /\ tokenTable[t].expires_at # NoTime
                             /\ tokenTable[t].expires_at < time}

\* the rows of token_usage_log left by ON DELETE CASCADE on token_id
CascadeDelete(log, deleted) ==
  SelectSeq(log, LAMBDA row : row.token_id \notin deleted)

\* TokenRepository.deleteExpiredTokens
TokenDeleteExpiredTokens ==
  LET deleted == ExpiredTokens(upload_tokens, now)
  IN /\ deleted # {}
     /\ upload_tokens' = [t \in DOMAIN upload_tokens \ deleted |-> upload_tokens[t]]
     /\ token_usage_log' = CascadeDelete(token_usage_log, deleted)
     /\ UNCHANGED <<next_token_id, now, storeFrame>>

\* a second passes
Clock ==
  /\ now < MaxTime
  /\ now' = now + 1
  /\ UNCHANGED <<dbVars, storeFrame>>

NextTokenStore ==
  \/ \E input \in CreateTokenInputs : TokenCreate(input)
  \/ \E id \in TokenIds : TokenMarkAsUsed(id)
  \/ \E id \in TokenIds : TokenIncrementUsageCount(id)
  \/ \E id \in TokenIds : TokenDeactivate(id)
  \/ \E id \in TokenIds, status \in {"success", "failed"} : TokenLogUsage(id, status)
  \/ TokenDeleteExpiredTokens
  \/ Clock

SpecTokenStore == Init /\ [][NextTokenStore]_vars

----
\* modules/v1/services/image.service.ts called by any caller: the transform
\* cache on its own.  A string is the sequence of its characters; a buffer is
\* what determines its bytes: the content decoded and the resize and encoding
\* parameters handed to sharp.

NumImgFiles == 2    \* files saved to the raw storage
NumImgCalls == 4    \* calls of saveStream and processImage in a run

\* no buffer yet; also the bytes of an empty file
NoBuffer == [content |-> "", width |-> 0, height |-> 0, quality |-> 0, format |-> ""]


\* the options drawn by the model
ImageOptions ==
  {[width |-> 100, height |-> 0,  quality |-> NoQuality, format |-> ""],
   [width |-> 100, height |-> 0,  quality |-> 80,        format |-> "webp"],
   [width |-> 100, height |-> 50, quality |-> 80,        format |-> "webp"],
   [width |-> 0,   height |-> 50, quality |-> 80,        format |-> ""],
   [width |-> 100, height |-> 0,  quality |-> 80,        format |-> "jpeg"],
   [width |-> 100, height |-> 0,  quality |-> 100,       format |-> ""],
   [width |-> 100, height |-> 0,  quality |-> 150,       format |-> ""],
   [width |-> 10,  height |-> 0,  quality |-> 0,         format |-> ""],
   [width |-> 10,  height |-> 0,  quality |-> 1,         format |-> ""]}

DigitChars == <<"0", "1", "2", "3", "4", "5", "6", "7", "8", "9">>

\* a template literal's rendering of an integer
RECURSIVE Digits(_)
Digits(n) ==
  IF n < 0 THEN <<"-">> \o Digits(0 - n)
  ELSE IF n < 10 THEN <<DigitChars[n + 1]>>
  ELSE Digits(n \div 10) \o Digits(n % 10)

\* the characters of the extensions and formats of the model
Chars(s) ==
  CASE s = ".jpg" -> <<".", "j", "p", "g">>
    [] s = ".pdf" -> <<".", "p", "d", "f">>
    [] s = "webp" -> <<"w", "e", "b", "p">>
    [] s = "jpeg" -> <<"j", "p", "e", "g">>
    [] s = "png"  -> <<"p", "n", "g">>
    [] s = "avif" -> <<"a", "v", "i", "f">>
    [] OTHER -> <<>>

\* generateUniqueFilename: the n-th UUID followed by the original extension
generateUniqueFilename(n, ext) == Digits(n) \o Chars(ext)

\* path.parse(filename).name: the filename without its last extension
pathParseName(filename) ==
  LET dots == {i \in 2..Len(filename) : filename[i] = "."}
  IN IF dots = {} THEN filename
     ELSE SubSeq(filename, 1, (CHOOSE i \in dots : \A j \in dots : j <= i) - 1)

\* ImageService.buildCacheKey without the height
buildCacheKeyIgnoringHeight(filename, options) ==
  LET quality == IF options.quality = NoQuality THEN 80 ELSE options.quality
      format == IF options.format = "" THEN "webp" ELSE options.format
  IN pathParseName(filename)
       \o (IF options.width # 0 THEN <<"_", "w">> \o Digits(options.width) ELSE <<>>)
       \o <<"_", "q">> \o Digits(quality)
       \o <<".">> \o Chars(format)

\* ImageService.buildCacheKey
buildCacheKey(filename, options) ==
  LET quality == IF options.quality = NoQuality THEN 80 ELSE options.quality
      format == IF options.format = "" THEN "webp" ELSE options.format
  IN pathParseName(filename)
       \o (IF options.width # 0 THEN <<"_", "w">> \o Digits(options.width) ELSE <<>>)
       \o (IF options.height # 0 THEN <<"_", "h">> \o Digits(options.height) ELSE <<>>)
       \o <<"_", "q">> \o Digits(quality)
       \o <<".">> \o Chars(format)

\* processImage: Math.max(1, Math.min(100, quality)), quality = 80 by default
clampedQuality(quality) ==
  LET q == IF quality = NoQuality THEN 80 ELSE quality
  IN IF q > 100 THEN 100 ELSE IF q < 1 THEN 1 ELSE q

\* the files of raw/image called storedFilename (every image of the model is
\* uploaded as a .jpg)
rawImage(dir, storedFilename) ==
  {n \in DOMAIN dir : /\ dir[n].category = "image"
                      /\ generateUniqueFilename(n, ".jpg") = storedFilename}

\* sharp(rawPath).resize(..).<format>({quality: clampedQuality}).toBuffer()
toBuffer(content, options) ==
  [content |-> content,
   width   |-> options.width,
   height  |-> options.height,
   quality |-> clampedQuality(options.quality),
   format  |-> IF options.format = "" THEN "webp" ELSE options.format]

\* StorageService.saveStream: the stream is written to raw/<category> under a
\* fresh name
StorageSaveStream(upload) ==
  /\ arrivals < NumImgFiles
  /\ arrivals' = arrivals + 1
  /\ disk' = Put(disk, arrivals + 1, [category |-> classify(upload),
                                      content |-> upload.content])
  /\ UNCHANGED <<dbVars, now, faults, pc, rid, uploadToken, file, result, err, reply, imgVars>>

\* ImageService.processImage is called: the call takes the lowest free
\* context and computes its cache key
ProcessImage(r, storedFilename, options) ==
  /\ arrivals < NumImgCalls
  /\ Free(r)
  /\ \A q \in Slots : q < r => ~Free(q)
  /\ arrivals' = arrivals + 1
  /\ call' = [call EXCEPT ![r] =
       [storedFilename |-> storedFilename, width |-> options.width,
        height |-> options.height, quality |-> options.quality,
        format |-> options.format,
        cacheKey |-> buildCacheKey(storedFilename, options), buffer |-> NoBuffer]]
  /\ pc' = [pc EXCEPT ![r] = "readFile"]
  /\ reply' = [reply EXCEPT ![r] = ""]
  /\ UNCHANGED <<dbVars, disk, now, faults, rid, uploadToken, file, result, err, cache>>

\* streamOptimizedImage is the caller of the processImage of a download, whose
\* context holds the identifier asked for
InDownload(r) == result[r] # 0

\* processImage returns its buffer: to the caller of the service, or to
\* streamOptimizedImage, which sends it
ImageReturns(r) ==
  IF InDownload(r) THEN Answer(r, "optimized") ELSE Answer(r, "buffer")

\* processImage throwing through a streamOptimizedImage without its catch
ImageThrowsWithoutFallback(r, error) == Answer(r, error)

\* processImage throws: to the caller of the service, or to the catch of
\* streamOptimizedImage
ImageThrows(r, error) ==
  IF InDownload(r)
  THEN /\ pc' = [pc EXCEPT ![r] = "fallback"]
       /\ UNCHANGED <<reply, file>>
  ELSE Answer(r, error)

\* processImage: await fsPromises.readFile(cachePath); the bytes of the cache
\* file are returned, a miss goes on to the transform
ImageReadFile(r) ==
  /\ pc[r] = "readFile"
  /\ IF call[r].cacheKey \in DOMAIN cache
     THEN /\ call' = [call EXCEPT ![r].buffer = cache[call[r].cacheKey]]
          /\ ImageReturns(r)
     ELSE /\ pc' = [pc EXCEPT ![r] = "toBuffer"]
          /\ UNCHANGED <<call, reply, file>>
  /\ UNCHANGED <<dbVars, disk, now, faults, arrivals, rid, uploadToken, result, err, cache>>

\* processImage: await mkdir of the cache directory, then await
\* transformer.toBuffer(); sharp rejects when the raw file is missing or
\* cannot be decoded, or for a fault of its own
ImageToBuffer(r) ==
  /\ pc[r] = "toBuffer"
  /\ LET raw == rawImage(disk, call[r].storedFilename)
     IN \/ /\ \E n \in raw : Contents[disk[n].content].decodable
           /\ call' = [call EXCEPT ![r].buffer =
                toBuffer(disk[CHOOSE n \in raw : TRUE].content, call[r])]
           /\ pc' = [pc EXCEPT ![r] = "open"]
           /\ UNCHANGED <<faults, reply, file>>
        \/ /\ ~\E n \in raw : Contents[disk[n].content].decodable
           /\ ImageThrows(r, "SHARP_ERROR")
           /\ UNCHANGED <<faults, call>>
        \/ /\ CanFail
           /\ faults' = faults + 1
           /\ ImageThrows(r, "SHARP_ERROR")
           /\ call' = call
  /\ UNCHANGED <<dbVars, disk, now, arrivals, rid, uploadToken, result, err, cache>>

\* fsPromises.writeFile, first await: the cache file is opened with flag 'w',
\* which creates it or truncates it to zero bytes
ImageOpen(r) ==
  /\ pc[r] = "open"
  /\ \/ /\ cache' = Put(cache, call[r].cacheKey, NoBuffer)
        /\ pc' = [pc EXCEPT ![r] = "writeFile"]
        /\ UNCHANGED <<faults, reply, file>>
     \/ /\ CanFail
        /\ faults' = faults + 1
        /\ ImageThrows(r, "FS_ERROR")
        /\ cache' = cache
  /\ UNCHANGED <<dbVars, disk, now, arrivals, rid, uploadToken, result, err, call>>

\* a processImage that moves the source into the cache: it writes the buffer
\* and unlinks the raw image
ImageWriteFileMovingSource(r) ==
  /\ pc[r] = "writeFile"
  /\ cache' = Put(cache, call[r].cacheKey, call[r].buffer)
  /\ disk' = [n \in DOMAIN disk \ rawImage(disk, call[r].storedFilename) |-> disk[n]]
  /\ ImageReturns(r)
  /\ UNCHANGED <<dbVars, now, faults, arrivals, rid, uploadToken, result, err, call>>

\* fsPromises.writeFile, second await: the buffer is written to the open
\* file; processImage returns the buffer
ImageWriteFile(r) ==
  /\ pc[r] = "writeFile"
  /\ cache' = Put(cache, call[r].cacheKey, call[r].buffer)
  /\ ImageReturns(r)
  /\ UNCHANGED <<dbVars, disk, now, faults, arrivals, rid, uploadToken, result, err, call>>

\* the steps of a processImage call
Image(r) ==
  \/ ImageReadFile(r)
  \/ ImageToBuffer(r)
  \/ ImageOpen(r)
  \/ ImageWriteFile(r)

\* the stored filenames processImage is called with
StoredFilenames == {generateUniqueFilename(n, ".jpg") : n \in 1..NumImgFiles}

\* the first NumImgFiles calls save files; processImage is called at any time
\* with a stored filename and options, up to MaxInFlight calls at a time
NextImage ==
  \/ \E upload \in Uploads : StorageSaveStream(upload)
  \/ \E r \in Slots, storedFilename \in StoredFilenames, options \in ImageOptions :
       ProcessImage(r, storedFilename, options)
  \/ \E r \in Slots : Image(r)

SpecImage == Init /\ [][NextImage]_vars

----
\* Downloads through the image transform: DownloadService.streamOptimizedImage

NumTrUploads == 2   \* uploads of a run with transformed downloads
NumTrReqs == 3      \* its requests, uploads and downloads

\* the queries of GET /files/:identifier drawn by the model: a width, a
\* quality alone
DownloadQueries ==
  {[width |-> 100, height |-> 0,  quality |-> NoQuality, format |-> ""],
   [width |-> 0,   height |-> 50, quality |-> NoQuality, format |-> ""],
   [width |-> 0,   height |-> 0,  quality |-> NoQuality, format |-> "jpeg"],
   [width |-> 0,   height |-> 0,  quality |-> 80,        format |-> ""]}

\* streamFile: await streamOptimizedImage, which calls processImage with the
\* stored filename of the record and the options; processImage computes its
\* cache key and reads the cache
DownloadStreamOptimized(r) ==
  /\ pc[r] = "stream"
  /\ Optimized(r)
  /\ LET storedFilename == generateUniqueFilename(files[result[r]].stored_filename,
                                                  files[result[r]].file_extension)
     IN call' = [call EXCEPT ![r].storedFilename = storedFilename,
                             ![r].cacheKey = buildCacheKey(storedFilename, call[r])]
  /\ pc' = [pc EXCEPT ![r] = "readFile"]
  /\ UNCHANGED <<dbVars, disk, now, faults, arrivals, rid, uploadToken, file, result, err,
                 reply, cache>>

\* streamOptimizedImage, catch: fs.stat of the raw image (ENOENT when it is
\* gone), then reply.send of its stream
DownloadFallback(r) ==
  /\ pc[r] = "fallback"
  /\ IF result[r] \in DOMAIN disk
     THEN Answer(r, "served")
     ELSE Answer(r, "ENOENT")
  /\ UNCHANGED <<imgVars, dbVars, disk, now, faults, arrivals, rid, uploadToken, result, err>>

\* NumTrReqs requests, up to MaxInFlight at a time; an upload is one of the
\* first NumTrUploads requests and arrives when no request is being handled,
\* a download arrives at any time with any query
NextTransform ==
  \/ \E opt \in TokenOptions : GenerateToken(opt)
  \/ \E r \in Slots, secret \in {0} \cup TokenIds :
       AuthMiddleware(r, secret, NumTrUploads, 1)
  \/ \E r \in Slots : Handle(r)
  \/ \E r \in Slots, identifier \in 1..NumTrUploads, options \in DownloadQueries :
       StartDownload(r, identifier, options, NumTrReqs, MaxInFlight)
  \/ \E r \in Slots : Download(r)
  \/ \E r \in Slots : DownloadStreamOptimized(r)
  \/ \E r \in Slots : Image(r)
  \/ \E r \in Slots : DownloadFallback(r)

SpecTransform == Init /\ [][NextTransform]_vars


----
\* Vocabulary of the properties

\* the awaits inside UploadService.handleUpload
InHandleUpload ==
  {"saveStream", "sizeCheck", "deleteTooLarge", "findByHash", "deleteDuplicate",
   "validateFile", "deleteInvalid", "create", "update", "rollback"}

\* the awaits of uploadFile after handleUpload has returned or thrown
AfterHandleUpload == {"markAsUsed", "logUsage", "logFailedUsage", "done"}

\* the errors handleUpload throws
HandleUploadErrors ==
  {"FILE_CATEGORY_MISMATCH", "STORAGE_ERROR", "FILE_TOO_LARGE",
   "DB_ERROR findByHash", "SECURITY_VALIDATION_FAILED", "ER_DUP_ENTRY",
   "DB_ERROR create", "DB_ERROR update"}

\* handleUpload of the request in slot r has thrown
HandleUploadFailed(r) ==
  /\ pc[r] \in {"rollback", "logFailedUsage", "done"}
  /\ err[r] \in HandleUploadErrors

\* handleUpload of the request in slot r has found an existing record
DedupHit(r) == result[r] # 0 /\ result[r] # rid[r]

\* the UPDATE of markAsUsed was applied for the request in slot r
Consumed(r) ==
  \/ pc[r] = "logUsage"
  \/ pc[r] \in {"logFailedUsage", "done"} /\ err[r] = "DB_ERROR logUsage"
  \/ pc[r] = "done" /\ reply[r] = "success"

\* the slot whose request takes the step
Steps(r) == pc'[r] # pc[r]

LogRows == DOMAIN token_usage_log

SuccessRows(t) ==
  {i \in LogRows : /\ token_usage_log[i].token_id = t
                   /\ token_usage_log[i].status = "success"}

\* the stored files that hold the bytes with this hash
FilesOnDisk(hash) == {n \in DOMAIN disk : calculateFileHash(disk[n].content) = hash}

----
\* C1: for a token with max_uses = 1, at most one of the upload requests that
\* present it completes successfully (is logged and answered as a success),
\* however the requests interleave; every other one is rejected.
C1_SingleUseTokenSucceedsOnce ==
  \A t \in DOMAIN upload_tokens :
    upload_tokens[t].max_uses = 1 => Cardinality(SuccessRows(t)) <= 1

\* C2: a request whose handleUpload fails never changes the token table: no
\* step it takes inside handleUpload, and no step on its failure path up to
\* the error answer, changes current_uses, is_used or used_at of any token.
C2_FailedUploadKeepsToken ==
  [][\A r \in Slots :
       (Steps(r) /\ (pc[r] \in InHandleUpload \cup {"file"} \/ HandleUploadFailed(r)'))
         => upload_tokens' = upload_tokens]_vars

\* C2 witness: without any rejected call, an upload with a single-use token
\* failed and a later upload with the same token succeeded
C2_Witness ==
  /\ faults = 0
  /\ \E i, j \in LogRows :
       /\ i < j
       /\ token_usage_log[i].token_id = token_usage_log[j].token_id
       /\ upload_tokens[token_usage_log[i].token_id].max_uses = 1
       /\ token_usage_log[i].status = "failed"
       /\ token_usage_log[j].status = "success"

\* C3: an answered upload request has not created a file record without its
\* token having been consumed, and has not consumed its token while being
\* answered with an error.
C3_ConsumptionPairedWithRecord ==
  \A r \in Slots :
    (pc[r] = "done" /\ uploadToken[r] # 0)
      => /\ rid[r] \in DOMAIN files => Consumed(r)
         /\ Consumed(r) => reply[r] = "success"

\* the await that follows p in the pipeline of one upload
NextStep(p) ==
  CASE p = "file" -> {"saveStream"}
    [] p = "saveStream" -> {"sizeCheck"}
    [] p = "sizeCheck" -> {"findByHash", "deleteTooLarge"}
    [] p = "findByHash" -> {"validateFile", "deleteDuplicate"}
    [] p = "deleteDuplicate" -> {"markAsUsed"}
    [] p = "validateFile" -> {"create", "deleteInvalid"}
    [] p = "create" -> {"update"}
    [] p = "update" -> {"markAsUsed"}
    [] p = "markAsUsed" -> {"logUsage"}
    [] OTHER -> {}

\* C4: the steps of one upload happen in the order classify, storage write,
\* size check, dedup lookup, validation, record insert, token consumption (a
\* step is left only for the next one, for the short cut of a duplicate, or
\* for the failure path); the token table changes only in the consumption
\* step, and then the record the request returns is in the file store.
C4_StepOrder ==
  [][\A r \in Slots :
       Steps(r) =>
         /\ pc'[r] \in NextStep(pc[r]) \cup {"file", "rollback", "logFailedUsage", "done"}
         /\ pc'[r] = "markAsUsed" => result'[r] \in DOMAIN files'
         /\ upload_tokens' # upload_tokens
              => pc[r] = "markAsUsed" /\ result[r] \in DOMAIN files]_vars

\* C4 witness: a request that inserted its record and then consumed its token
C4_Witness ==
  \E r \in Slots :
    /\ pc[r] = "logUsage"
    /\ result[r] = rid[r]
    /\ rid[r] \in DOMAIN files
    /\ files[rid[r]].validation_status = "safe"
    /\ upload_tokens[uploadToken[r]].current_uses = 1

\* C5: when two uploads with distinct tokens, one after the other, both
\* succeed with the same bytes, the second returns the record of the first and
\* storage holds exactly one file with these bytes.
C5_SecondUploadDeduplicates ==
  \A i, j \in LogRows :
    LET a == token_usage_log[i]
        b == token_usage_log[j]
    IN (/\ i < j
        /\ a.status = "success" /\ b.status = "success"
        /\ a.token_id # b.token_id
        /\ files[a.file_id].hash_sha256 = files[b.file_id].hash_sha256
        /\ \A r \in Slots : Free(r))
         => /\ a.file_id = b.file_id
            /\ Cardinality(FilesOnDisk(files[a.file_id].hash_sha256)) = 1

C7_SafeHashUnique ==
  \A a, b \in DOMAIN files :
    (/\ files[a].validation_status = "safe"
     /\ files[b].validation_status = "safe"
     /\ files[a].hash_sha256 = files[b].hash_sha256) => a = b

\* C7 witness: without any rejected call, an upload of bytes that another
\* request was storing at the same time met the record of that request
C7_Witness ==
  /\ faults = 0
  /\ \E r \in Slots :
       /\ err[r] = "ER_DUP_ENTRY"
       /\ \E a \in DOMAIN files :
            /\ files[a].validation_status = "safe"
            /\ files[a].hash_sha256 = calculateFileHash(file[r].content)

----
\* C11: an upload request admitted with a token appends exactly one row for
\* that token to the usage log, at the step that answers it, and none before,
\* whatever the outcome (success, failure, no file in the request).
C11_OneLogRowPerAttempt ==
  [][\A r \in Slots :
       (Steps(r) /\ pc[r] \notin {"idle", "done"}) =>
         IF pc'[r] = "done"
         THEN /\ Len(token_usage_log') = Len(token_usage_log) + 1
              /\ token_usage_log'[Len(token_usage_log')].token_id = uploadToken[r]
              /\ SubSeq(token_usage_log', 1, Len(token_usage_log)) = token_usage_log
         ELSE token_usage_log' = token_usage_log]_vars

\* C12: a rejected write of the usage log does not change the answer: a
\* request that returned a record of the file store and consumed its token is
\* answered with success, and a request that failed is answered with the error
\* it failed with.
C12_LogFailureKeepsOutcome ==
  \A r \in Slots :
    (pc[r] = "done" /\ uploadToken[r] # 0) =>
      /\ (Consumed(r) /\ result[r] \in DOMAIN files) => reply[r] = "success"
      /\ (err[r] # "" /\ err[r] # "DB_ERROR logUsage") => reply[r] = err[r]

\* C13: when authMiddleware rejects the secret of a stored token that
\* validateToken finds invalid, the step appends a row for that token to the
\* usage log.
C13_AuthRejectionLogged ==
  [][\A r \in Slots, secret \in TokenIds :
       (/\ secret \in DOMAIN upload_tokens
        /\ ~validateToken(upload_tokens, secret, now).valid
        /\ pc'[r] = "done" /\ reply'[r] = "AUTH_TOKEN_INVALID"
        /\ AuthMiddleware(r, secret, NumReqs, MaxInFlight))
         => /\ Len(token_usage_log') = Len(token_usage_log) + 1
            /\ token_usage_log'[Len(token_usage_log')].token_id = secret]_vars

----
\* the three conditions under which a stored token is consumable at a time
Consumable(row, time) ==
  /\ row.is_active
  /\ row.current_uses < row.max_uses
  /\ row.expires_at = NoTime \/ row.expires_at > time

\* C14 as stated: validateToken accepts the secret of a stored token exactly
\* when the row is active, current_uses < max_uses and expires_at is null or
\* later than the time of the call; a secret of no row is refused with the
\* reason Token not found.
C14_ValidIffConsumable ==
  \A secret \in TokenIds :
    IF secret \in DOMAIN upload_tokens
    THEN validateToken(upload_tokens, secret, now).valid
           <=> Consumable(upload_tokens[secret], now)
    ELSE validateToken(upload_tokens, secret, now)
           = [valid |-> FALSE, reason |-> "Token not found"]

\* C14 amended: validateToken accepts the secret of a stored token exactly
\* when the row is active, current_uses < max_uses and expires_at is null or
\* not earlier than the time of the call; a secret of no row is refused with
\* the reason Token not found.
C14_ValidIffNotPastExpiry ==
  \A secret \in TokenIds :
    IF secret \in DOMAIN upload_tokens
    THEN LET row == upload_tokens[secret]
         IN validateToken(upload_tokens, secret, now).valid
              <=> /\ row.is_active
                  /\ row.current_uses < row.max_uses
                  /\ row.expires_at = NoTime \/ row.expires_at >= now
    ELSE validateToken(upload_tokens, secret, now)
           = [valid |-> FALSE, reason |-> "Token not found"]

\* C14 witness: one token is accepted at the very time it expires, one row is
\* refused, and one secret matches no row since its row was deleted
C14_Witness ==
  /\ \E t \in DOMAIN upload_tokens :
       /\ upload_tokens[t].expires_at = now
       /\ validateToken(upload_tokens, t, now).valid
  /\ \E t \in TokenIds :
       /\ t < next_token_id
       /\ ~validateToken(upload_tokens, t, now).valid

----
\* C15: once an upload with a token of max_uses = 1 has succeeded,
\* validateToken refuses the secret with the reason Token has already been
\* used.
C15_AlreadyUsedReason ==
  \A t \in DOMAIN upload_tokens :
    (upload_tokens[t].max_uses = 1 /\ SuccessRows(t) # {})
      => validateToken(upload_tokens, t, now)
           = [valid |-> FALSE, reason |-> "Token has already been used"]

\* a stored token of max_uses = 1 that markAsUsed has consumed
Spent(t) ==
  /\ t \in DOMAIN upload_tokens
  /\ upload_tokens[t].max_uses = 1
  /\ upload_tokens[t].is_used

\* an id given to a row that has been deleted since
Deleted(t) == t < next_token_id /\ t \notin DOMAIN upload_tokens

\* C16: a consumed token of max_uses = 1 is refused by validateToken, and
\* after every step of the token store (creation, consumption, counting,
\* deactivation, sweep of the expired rows, passing of time) it is still
\* consumed or its row is deleted, and a deleted row never comes back; so it
\* is never accepted again.
C16_SpentTokenStaysRefused ==
  [][\A t \in TokenIds :
       /\ Spent(t) => Spent(t)' \/ Deleted(t)'
       /\ Deleted(t) => Deleted(t)'
       /\ (Spent(t)' \/ Deleted(t)') => ~validateToken(upload_tokens', t, now').valid]_vars

\* C16 witness: a consumed single-use token that is active and has no expiry,
\* beside another one whose row the sweep has deleted
C16_Witness ==
  /\ \E t \in TokenIds :
       /\ Spent(t)
       /\ upload_tokens[t].is_active
       /\ upload_tokens[t].expires_at = NoTime
  /\ \E t \in TokenIds : Deleted(t)

----
C18_IncrementFailureStillServes ==
  \A r \in Slots :
    (/\ pc[r] = "done"
     /\ result[r] \in DOMAIN files
     /\ fileExists(disk, result[r]))
      => reply[r] # "DB_ERROR incrementDownloadCount"

\* the contexts that hold a processImage call
Calling == {r \in Slots : call[r] # NoCall}

\* the number a sequence of digits renders
RECURSIVE Number(_)
Number(s) ==
  IF s = <<>> THEN 0
  ELSE IF Head(s) = "-" THEN 0 - Number(Tail(s))
  ELSE Number(SubSeq(s, 1, Len(s) - 1)) * 10
         + (CHOOSE d \in 0..9 : DigitChars[d + 1] = s[Len(s)])

\* the quality written in a cache key: the digits between its last "_q" and
\* its last "."
QualityInKey(key) ==
  LET q == CHOOSE i \in 1..Len(key) - 1 :
             /\ key[i] = "_" /\ key[i + 1] = "q"
             /\ \A j \in i + 1..Len(key) - 1 : ~(key[j] = "_" /\ key[j + 1] = "q")
      dot == CHOOSE i \in 1..Len(key) :
               key[i] = "." /\ \A j \in i + 1..Len(key) : key[j] # "."
  IN Number(SubSeq(key, q + 2, dot - 1))

\* the quality a call asks for once clamped to [1,100], 80 when it gives none
Clamped(quality) ==
  LET q == IF quality = NoQuality THEN 80 ELSE quality
  IN CHOOSE c \in 1..100 : \/ c = q
                           \/ c = 100 /\ q > 100
                           \/ c = 1 /\ q < 1

\* C19: the cache key contains the quality clamped to [1,100]: two calls for
\* the same source, width, height and format whose qualities clamp to the same
\* number have the same cache key, and the quality written in the key of a
\* cache file is the quality its buffer was encoded with.
C19_KeyHoldsClampedQuality ==
  /\ \A r, q \in Calling :
       (/\ call[r].storedFilename = call[q].storedFilename
        /\ call[r].width = call[q].width
        /\ call[r].height = call[q].height
        /\ call[r].format = call[q].format
        /\ Clamped(call[r].quality) = Clamped(call[q].quality))
         => call[r].cacheKey = call[q].cacheKey
  /\ \A r \in Calling : QualityInKey(call[r].cacheKey) \in 1..100
  /\ \A key \in DOMAIN cache :
       cache[key] # NoBuffer => QualityInKey(key) = cache[key].quality

\* what a call asks for: the source and the parameters, quality and format
\* with their defaults
Requested(c) ==
  [storedFilename |-> c.storedFilename,
   width   |-> c.width,
   height  |-> c.height,
   quality |-> IF c.quality = NoQuality THEN 80 ELSE c.quality,
   format  |-> IF c.format = "" THEN "webp" ELSE c.format]

\* C20: buildCacheKey is deterministic and collision-free: two calls have the
\* same cache key if and only if they ask for the same source stored filename,
\* width, height, quality and format, and a written cache file is the transform
\* of the source, width, height and format of every call that has its key.
C20_KeysCollisionFree ==
  /\ \A r, q \in Calling :
       call[r].cacheKey = call[q].cacheKey <=> Requested(call[r]) = Requested(call[q])
  /\ \A r \in Calling :
       (call[r].cacheKey \in DOMAIN cache /\ cache[call[r].cacheKey] # NoBuffer)
         => LET buffer == cache[call[r].cacheKey]
            IN /\ buffer.width = call[r].width
               /\ buffer.height = call[r].height
               /\ buffer.format = Requested(call[r]).format
               /\ \A n \in rawImage(disk, call[r].storedFilename) :
                    buffer.content = disk[n].content

\* C20 witness: two calls for the same source that differ only in the height
\* have returned their buffers, and the cache holds a file for each of them
C20_Witness ==
  \E r, q \in Calling :
    /\ pc[r] = "done" /\ reply[r] = "buffer"
    /\ pc[q] = "done" /\ reply[q] = "buffer"
    /\ call[r].storedFilename = call[q].storedFilename
    /\ call[r].width = call[q].width
    /\ call[r].quality = call[q].quality
    /\ call[r].format = call[q].format
    /\ call[r].height # call[q].height
    /\ call[r].cacheKey # call[q].cacheKey
    /\ {call[r].cacheKey, call[q].cacheKey} \subseteq DOMAIN cache
    /\ call[r].buffer # call[q].buffer

\* the transform output of a call: what sharp makes of the raw file of its
\* source with its parameters
Output(c) == {toBuffer(disk[n].content, c) : n \in rawImage(disk, c.storedFilename)}

\* C21: once processImage has returned successfully a second call with the
\* same parameters is a cache hit: a successful return leaves its bytes in the
\* cache file, a written cache file keeps its bytes, and a call that finds the
\* cache file returns its bytes without running the transform or writing the
\* cache.
C21_SecondCallIsCacheHit ==
  [][/\ \A r \in Slots :
          (pc[r] # "done" /\ pc'[r] = "done" /\ reply'[r] = "buffer")
            => /\ call'[r].cacheKey \in DOMAIN cache'
               /\ cache'[call'[r].cacheKey] = call'[r].buffer
     /\ \A key \in DOMAIN cache :
          cache[key] # NoBuffer => key \in DOMAIN cache' /\ cache'[key] = cache[key]
     /\ \A r \in Slots :
          (pc[r] = "readFile" /\ pc'[r] # "readFile" /\ call[r].cacheKey \in DOMAIN cache)
            => /\ pc'[r] = "done" /\ reply'[r] = "buffer"
               /\ call'[r].buffer = cache[call[r].cacheKey]
               /\ cache' = cache]_vars

\* C22: concurrent processImage calls with the same source and parameters do
\* not disturb each other: a call fails only when sharp or the file system
\* fails or the source cannot be decoded, every call that returns returns the
\* complete transform output, and a cache file that no call is writing holds
\* that output.
C22_ConcurrentCallsReturnComplete ==
  [][\A r \in Slots :
       /\ (pc[r] # "done" /\ pc'[r] = "done" /\ reply'[r] = "buffer")
            => call'[r].buffer \in Output(call'[r])
       /\ (pc[r] # "done" /\ pc'[r] = "done" /\ reply'[r] \in {"SHARP_ERROR", "FS_ERROR"})
            => \/ faults' > faults
               \/ Output(call[r]) = {}
               \/ \A n \in rawImage(disk, call[r].storedFilename) :
                    ~Contents[disk[n].content].decodable
       /\ (call'[r].cacheKey \in DOMAIN cache'
           /\ \A q \in Slots : ~(pc'[q] = "writeFile" /\ call'[q].cacheKey = call'[r].cacheKey))
            => cache'[call'[r].cacheKey] \in Output(call'[r])]_vars

\* the awaits inside ImageService.processImage
InProcessImage == {"readFile", "toBuffer", "open", "writeFile"}

\* C23: a download through the transform does not fail when processImage
\* fails while the source file exists: processImage ends the request only by
\* its buffer, after its failure the original file is served whenever it is in
\* storage, and a request is answered FILE_NOT_FOUND only when the record or
\* the source file is missing.
C23_TransformFailureServesOriginal ==
  [][\A r \in Slots :
       InDownload(r) =>
         /\ (pc[r] \in InProcessImage /\ pc'[r] = "done") => reply'[r] = "optimized"
         /\ (pc[r] \in InProcessImage /\ pc'[r] \notin InProcessImage \cup {"done"})
              => pc'[r] = "fallback"
         /\ (pc[r] = "fallback" /\ pc'[r] # "fallback")
              => /\ pc'[r] = "done"
                 /\ result[r] \in DOMAIN disk => reply'[r] = "served"
         /\ (pc[r] # "done" /\ pc'[r] = "done" /\ reply'[r] = "FILE_NOT_FOUND")
              => result[r] \notin DOMAIN files \/ result[r] \notin DOMAIN disk]_vars

\* C23 witness: a download of a stored image asked for a width, its
\* processImage failed, and the original file was served
C23_Witness ==
  \E r \in Slots :
    /\ InDownload(r)
    /\ pc[r] = "done" /\ reply[r] = "served"
    /\ call[r].width # 0
    /\ call[r].cacheKey # <<>>
    /\ call[r].cacheKey \notin DOMAIN cache
    /\ result[r] \in DOMAIN disk

\* the categories whose MIME list, or extension list, holds the declared one
MimeCategories(f) ==
  {c \in Categories : ToLowerCase(f.mimetype) \in FILE_CATEGORIES[c].mimeTypes}

ExtCategories(f) ==
  {c \in Categories : f.ext # "" /\ ToLowerCase(f.ext) \in FILE_CATEGORIES[c].extensions}

\* c is the category of f: its MIME category, else its extension category,
\* else 'other'
ClassifiedAs(f, c) ==
  /\ c \in Categories
  /\ IF MimeCategories(f) \ {"other"} # {} THEN MimeCategories(f) = {c}
     ELSE IF ExtCategories(f) # {} THEN ExtCategories(f) = {c}
     ELSE c = "other"

\* C24: classification is total and never raises: every upload that brings a
\* file is either refused for the category restriction of its token or saved,
\* and the category it is saved and recorded under is its MIME category when it
\* has one, else its extension category, else 'other'.
C24_ClassificationTotal ==
  [][/\ \A r \in Slots :
          /\ (pc[r] = "file" /\ pc'[r] # "file" /\ file'[r] # NoUpload)
               => \/ pc'[r] = "saveStream"
                  \/ err'[r] = "FILE_CATEGORY_MISMATCH"
          /\ (pc[r] = "saveStream" /\ pc'[r] = "sizeCheck")
               => ClassifiedAs(file[r], disk'[rid[r]].category)
     /\ \A id \in DOMAIN files' \ DOMAIN files :
          ClassifiedAs(Upload(files'[id].file_extension, files'[id].mime_type,
                              files'[id].hash_sha256),
                       files'[id].category)]_vars

\* C24 witness: an upload named .pdf and declared image/jpeg has been saved as
\* an image, and one without a known type or extension as 'other'
C24_Witness ==
  \E r \in Slots :
    /\ pc[r] = "sizeCheck"
    /\ \/ /\ file[r].ext = ".pdf" /\ file[r].mimetype = "image/jpeg"
          /\ disk[rid[r]].category = "image"
       \/ /\ file[r].ext = ".xyz" /\ file[r].mimetype = "application/octet-stream"
          /\ disk[rid[r]].category = "other"

\* C25: when the token's allowed_category is not 'any' and is not the category
\* of the upload, handleUpload throws FILE_CATEGORY_MISMATCH before saveStream:
\* the request never has a file in storage or a file record, and none of its
\* steps changes storage, the file store or the token table.
C25_CategoryMismatchChangesNothing ==
  [][\A r \in Slots :
       /\ (/\ pc[r] = "file" /\ pc'[r] # "file" /\ file'[r] # NoUpload
           /\ TokenOf(r).allowed_category # "any"
           /\ ~ClassifiedAs(file'[r], TokenOf(r).allowed_category))
            => /\ err'[r] = "FILE_CATEGORY_MISMATCH"
               /\ pc'[r] # "saveStream"
       /\ ((err[r] = "FILE_CATEGORY_MISMATCH" \/ err'[r] = "FILE_CATEGORY_MISMATCH")
           /\ Steps(r) /\ rid'[r] = rid[r])
            => /\ disk' = disk /\ files' = files /\ upload_tokens' = upload_tokens
               /\ rid[r] \notin DOMAIN disk /\ rid[r] \notin DOMAIN files]_vars

\* C25 witness: a PDF sent with a token restricted to images has been answered
\* and left nothing in storage
C25_Witness ==
  \E r \in Slots :
    /\ pc[r] = "done"
    /\ err[r] = "FILE_CATEGORY_MISMATCH"
    /\ upload_tokens[uploadToken[r]].allowed_category = "image"
    /\ upload_tokens[uploadToken[r]].current_uses = 0
    /\ rid[r] \notin DOMAIN disk /\ rid[r] \notin DOMAIN files

C27_AllFailingChecksReported ==
  \A r \in Slots :
    (pc[r] = "validateFile" /\ rid[r] \in DOMAIN disk)
      => LET category == disk[rid[r]].category
             content == file[r].content
             errors == validateFileErrors(TRUE, file[r].ext, content, category,
                                          file[r].mimetype)
         IN /\ ~isAllowedExtension(file[r].ext, category)
                 => "File extension is not allowed" \in errors
            /\ ~isAllowedMimeType(file[r].mimetype, category)
                 => "MIME type is not allowed" \in errors
            /\ ~verifyMimeType(content, file[r].mimetype)
                 => "MIME type mismatch" \in errors
            /\ Contents[content].size > FILE_CATEGORIES[category].maxSize
                 => "File size exceeds maximum" \in errors
            /\ Contents[content].malicious
                 => "Security validation failed" \in errors

\* C28: the token usage log is append-only: in every step, the sweep of the
\* expired tokens included, every row of the log stays where it is and as it
\* is.
C28_LogAppendOnly ==
  [][/\ Len(token_usage_log') >= Len(token_usage_log)
     /\ \A i \in 1..Len(token_usage_log) : token_usage_log'[i] = token_usage_log[i]]_vars

\* the positions of handleUpload whose next step is a call of deleteFile
DeletePcs == {"deleteTooLarge", "deleteDuplicate", "deleteInvalid", "rollback"}

\* C29: deleteFile is idempotent and never raises: a step that calls it leaves
\* the request's file absent and every other file as it was, and when the file
\* is already absent (the second deletion of the same file) storage is
\* unchanged and the request goes on with the error it already had.
C29_DeleteFileIdempotent ==
  [][\A r \in Slots :
       (pc[r] \in DeletePcs /\ pc'[r] # pc[r])
         => /\ rid[r] \notin DOMAIN disk'
            /\ DOMAIN disk' = DOMAIN disk \ {rid[r]}
            /\ \A n \in DOMAIN disk' : disk'[n] = disk[n]
            /\ rid[r] \notin DOMAIN disk
                 => /\ disk' = disk
                    /\ pc[r] = "rollback" => err'[r] = err[r]]_vars

\* a request whose file was deleted by the failed validation or the size check
\* and deleted again by the catch block, while another upload is stored
C29_Witness ==
  \E r \in Slots :
    /\ pc[r] = "logFailedUsage"
    /\ err[r] \in {"FILE_TOO_LARGE", "SECURITY_VALIDATION_FAILED"}
    /\ rid[r] \notin DOMAIN disk
    /\ DOMAIN disk # {}

\* C30: with a token that has a max_file_size T, an upload that handleUpload
\* accepts (it answers with a record, a new one or the existing one of a
\* duplicate) has a size within T and within the maxSize of its category.
C30_TighterLimitOnEveryAnswer ==
  \A r \in Slots :
    (pc[r] = "markAsUsed" /\ TokenOf(r).max_file_size # 0)
      => LET s == Contents[file[r].content].size
         IN /\ s <= TokenOf(r).max_file_size
            /\ s <= getMaxSize(classify(file[r]))

\* the declared types that verifyMimeType lets pass when nothing is detected
TextLike(declaredMime) ==
  \/ StartsWithText(declaredMime)
  \/ declaredMime = "application/json"
  \/ declaredMime = "application/xml"

\* C31: with MIME verification enabled, when the type of a file cannot be
\* established from its content (nothing is detected in it, or its prefix
\* could not be read), the MIME check yields an error unless the declared type
\* is a text-like type.
C31_UnknownTypePassesOnlyAsText ==
  \A r \in Slots :
    (/\ pc[r] = "validated"
     /\ ENABLE_MIME_VERIFICATION
     /\ \/ detectMimeFromBuffer(file[r].content) = ""
        \/ reply[r] = "Could not verify MIME type"
     /\ ~TextLike(file[r].mimetype))
      => err[r] # ""

\* C32: a successful upload mutates its token exactly once: the step that
\* consumes the token adds exactly 1 to current_uses and leaves the token
\* marked used exactly when the count has reached max_uses, so a multi-use
\* token with uses remaining is not marked used.
C32_TokenMutatedOncePerUpload ==
  [][\A r \in Slots :
       (pc[r] = "markAsUsed" /\ pc'[r] = "logUsage")
         => LET before == upload_tokens[uploadToken[r]]
                after == upload_tokens'[uploadToken[r]]
            IN /\ after.current_uses = before.current_uses + 1
               /\ after.is_used <=> after.current_uses >= after.max_uses]_vars

\* C33: an upload that found no safe record of its content and passed the
\* validation, while another upload of the same content is in flight, is
\* stored independently: when no store call has been rejected, its insert
\* gives it a record of its own next to its own physical file.
C33_ConcurrentSameContentStoredTwice ==
  [][\A r \in Slots :
       (pc[r] = "create" /\ Steps(r) /\ faults' = 0)
         => /\ pc'[r] = "update"
            /\ rid[r] \in DOMAIN files'
            /\ rid[r] \in DOMAIN disk']_vars

\* C34: processImage writes only under the cache partition: every step of a
\* call (hit, miss or failure) leaves the raw partition and the file records
\* as they are, and changes no cache file but the one of the call's key.
C34_ProcessImageWritesOnlyCache ==
  [][\A r \in Slots :
       (pc[r] \in InProcessImage /\ Steps(r))
         => /\ disk' = disk
            /\ files' = files
            /\ \A k \in DOMAIN cache \ {call[r].cacheKey} :
                 k \in DOMAIN cache' /\ cache'[k] = cache[k]]_vars

\* C34 witness: a download has been answered with the output processImage
\* wrote to the cache, and the raw image and its record are in place
C34_Witness ==
  \E r \in Slots :
    /\ reply[r] = "optimized"
    /\ call[r].cacheKey \in DOMAIN cache
    /\ cache[call[r].cacheKey] = call[r].buffer
    /\ rawImage(disk, call[r].storedFilename) # {}
    /\ result[r] \in DOMAIN files

\* C35: in every reachable state every token has current_uses <= max_uses.
C35_UsesWithinMax ==
  \A t \in DOMAIN upload_tokens :
    upload_tokens[t].current_uses <= upload_tokens[t].max_uses

\* C36: no half-committed upload: in every state where no upload is in
\* flight, every file record is 'safe' and its physical file is in storage,
\* also after a rejected store call of an earlier upload.
C36_NoHalfCommittedUpload ==
  (\A r \in Slots : Free(r))
    => \A id \in DOMAIN files :
         /\ files[id].validation_status = "safe"
         /\ files[id].stored_filename \in DOMAIN disk

\* every file record has a category other than 'other' and an extension and
\* a declared MIME type in the whitelists of its category
RecordsWhitelisted ==
  \A id \in DOMAIN files :
    /\ files[id].category # "other"
    /\ isAllowedExtension(files[id].file_extension, files[id].category)
    /\ isAllowedMimeType(files[id].mime_type, files[id].category)

\* C37 as stated: no upload classified 'other' is accepted by handleUpload (it
\* is never answered with a record), no file record has category 'other', and
\* every record has an extension and a declared MIME type in the whitelists
\* of its category.
C37_OtherNeverAccepted ==
  /\ \A r \in Slots :
       pc[r] \in {"create", "update", "markAsUsed"} => classify(file[r]) # "other"
  /\ RecordsWhitelisted

\* C37, amended: every upload classified 'other' that reaches the content
\* validation is rejected by it (an upload whose bytes duplicate a safe record
\* is answered with that record before the validation), no file record has
\* category 'other', and every record has an extension and a declared MIME
\* type in the whitelists of its category.
C37_OtherRejectedByValidation ==
  [][/\ \A r \in Slots :
          (pc[r] = "validateFile" /\ Steps(r) /\ classify(file[r]) = "other")
            => pc'[r] = "deleteInvalid"
     /\ RecordsWhitelisted']_vars

\* C37 witness: an upload classified 'other' has been rejected by the content
\* validation while the store holds the record of another upload
C37_Witness ==
  \E r \in Slots :
    /\ pc[r] = "rollback"
    /\ err[r] = "SECURITY_VALIDATION_FAILED"
    /\ classify(file[r]) = "other"
    /\ DOMAIN files # {}

\* C38: a download is served through the transform cache exactly when the
\* record is an image and a width, a height or a format is given: the step
\* that streams enters processImage in that case and in no other; a request
\* with only a quality, and every request for a record that is not an image,
\* is answered with the original file (or ENOENT when it is gone), the cache
\* untouched.
C38_TransformIffImageAndOption ==
  [][\A r \in Slots :
       (pc[r] = "stream" /\ Steps(r))
         => LET record == files[result[r]]
                asked == call[r].width # 0 \/ call[r].height # 0 \/ call[r].format # ""
            IN IF record.category = "image" /\ asked
               THEN pc'[r] = "readFile"
               ELSE /\ pc'[r] = "done"
                    /\ reply'[r] = IF result[r] \in DOMAIN disk THEN "served" ELSE "ENOENT"
                    /\ cache' = cache]_vars

\* C38 witness: a request that gave only a quality for an image has been
\* answered with the original file, and a request that gave only a format for
\* an image has been answered through the transform
C38_Witness ==
  \E r, q \in Slots :
    /\ reply[r] = "served"
    /\ result[r] \in DOMAIN files /\ files[result[r]].category = "image"
    /\ call[r].quality = 80 /\ call[r].width = 0 /\ call[r].height = 0 /\ call[r].format = ""
    /\ reply[q] = "optimized"
    /\ call[q].format = "jpeg" /\ call[q].width = 0 /\ call[q].height = 0

\* C39: every admitted upload request that carries a file eventually
\* terminates, answered with a success response or with an error; it never
\* stays in an intermediate step.
C39_UploadTerminates ==
  \A r \in Slots :
    (file[r] # NoUpload /\ ~Free(r)) ~> (pc[r] = "done" /\ reply[r] # "")

\* C39 witness: of two uploads that carried a file, one has been answered with
\* success and the other with an error thrown by handleUpload
C39_Witness ==
  \E r, q \in Slots :
    /\ pc[r] = "done" /\ reply[r] = "success" /\ rid[r] \in DOMAIN files
    /\ pc[q] = "done" /\ reply[q] \in {"FILE_TOO_LARGE", "SECURITY_VALIDATION_FAILED"}

====
